---- MODULE Spec2Model ----
(***************************************************************************)
(* Model of GroqQuestionGenerator (ai-service/services/                    *)
(* groq_question_generator.py): the credential rotator, the missing-work   *)
(* computation, the aptitude template fallback, and the aptitude           *)
(* generation entry point generate_aptitude_questions_by_topic with its    *)
(* single-call and batched paths.                                          *)
(***************************************************************************)
EXTENDS Integers, Sequences, FiniteSets, TLC

VARIABLES
    api_keys,            \* self.api_keys: ordered credentials
    current_key_index,   \* self.current_key_index
    pc,                  \* position of the running call
    topic_configs,       \* argument of the running call
    existing_counts,     \* result of _check_existing_questions
    missing_configs,     \* result of _calculate_missing_questions
    key_attempt,         \* loop variable of the key rotation loop
    retry,               \* loop variable of the retry loop
    current_api_key,     \* local current_api_key of the running call
    batch_i,             \* loop variable i of _generate_aptitude_in_batches
    all_questions,       \* accumulator of _generate_aptitude_in_batches
    result,              \* the value returned by the call
    log,                 \* requests.post and time.sleep calls of the running call
    inflight,            \* provider requests sent and not yet answered
    rot_start,           \* index before the current run of rotate_api_key calls
    rot_calls,           \* number of rotate_api_key calls in the current run
    rotate_ret,          \* value returned by the last rotate_api_key call
    last_op,             \* last public operation performed on the instance
    path,                \* branch the running call took after the planner
    entry,               \* the public entry point that is running
    args,                \* arguments of the running communication / direct call
    used_reading_templates,    \* self.used_reading_templates
    used_listening_templates,  \* self.used_listening_templates
    used_grammar_templates,    \* self.used_grammar_templates
    trace,               \* template selections of the running call, in order
    skill,               \* the skill the running communication call is at
    existing_questions_content,  \* self.existing_questions_content
    previous,            \* the value returned by the preceding run
    threads,             \* the locals of the workflows sharing the instance
    serialized,          \* whether the workflows take the instance in turn
    application          \* the caller's application: its request and the
                         \* questions the backend holds for it

vars == <<api_keys, current_key_index, pc, topic_configs, existing_counts,
          missing_configs, key_attempt, retry, current_api_key, batch_i,
          all_questions, result, log, inflight, rot_start, rot_calls,
          rotate_ret, last_op, path, entry, args, used_reading_templates,
          used_listening_templates, used_grammar_templates, trace, skill,
          existing_questions_content, previous, threads, serialized,
          application>>

\* the state of the communication and direct entry points
commVars == <<entry, args, used_reading_templates, used_listening_templates,
              used_grammar_templates, trace, skill>>

\* the persisted question texts of the running call and the preceding result
storeVars == <<existing_questions_content, previous>>

\* the workflows that share the instance
threadVars == <<threads, serialized>>

\* what the backend holds
backendVars == <<application>>

----------------------------------------------------------------------------
(* Bounds of the model *)

MaxKeys == 3        \* credentials configured on an instance
MaxTopics == 3      \* topic requests in one generation call
MaxListLen == 2     \* topic requests in a call of the pure functions
MaxCount == 2       \* requested / existing count per difficulty (pure functions)

(* Program constants *)

batch_threshold == 30        \* missing_total > 30 selects the batched path
batch_size == 2              \* topics per sub-batch
max_retries_per_key == 2     \* requests per credential in the single-call path
retry_delay_unit == 5        \* retry_delay = 5 * (retry + 1)
batch_delay == 3             \* time.sleep(3) between sub-batches
generic_repeat == 10         \* generic pool: two templates, repeated 10 times

----------------------------------------------------------------------------
(* Helpers *)

Max(a, b) == IF a >= b THEN a ELSE b

RECURSIVE SumSeq(_)
SumSeq(s) == IF s = <<>> THEN 0 ELSE Head(s) + SumSeq(Tail(s))

\* the concatenation of a sequence of sequences
RECURSIVE Flatten(_)
Flatten(ss) == IF ss = <<>> THEN <<>> ELSE Head(ss) \o Flatten(Tail(ss))

\* Python slice s[lo:hi] with 0-based bounds, clipped to the list
Slice(s, lo, hi) ==
    LET h == IF hi > Len(s) THEN Len(s) ELSE hi
    IN  IF lo >= h THEN <<>> ELSE SubSeq(s, lo + 1, h)

Difficulties == <<"easy", "medium", "hard">>

ZeroCounts == [easy |-> 0, medium |-> 0, hard |-> 0]

CountOf(rec, difficulty) ==
    CASE difficulty = "easy" -> rec.easy
      [] difficulty = "medium" -> rec.medium
      [] difficulty = "hard" -> rec.hard

\* a TopicRequest: total is derived from the three counts
TopicRequest(topic, e, m, h) ==
    [topic |-> topic, easy |-> e, medium |-> m, hard |-> h, total |-> e + m + h]

total_of(configs) == SumSeq([i \in 1..Len(configs) |-> configs[i].total])

----------------------------------------------------------------------------
(* Credential rotator *)

get_current_api_key(keys, index) ==
    IF keys = <<>> THEN "None" ELSE keys[index + 1]

\* mutant: the index saturates at the last credential instead of wrapping
rotate_next_index_saturating(keys, index) ==
    IF index + 1 < Len(keys) THEN index + 1 ELSE index

\* mutant: the modulo is forgotten
rotate_next_index_unwrapped(keys, index) == index + 1

\* new value of current_key_index (line 92)
rotate_next_index(keys, index) == (index + 1) % Len(keys)

\* the value rotate_api_key returns (lines 87-89, 95)
rotate_possible(keys) == ~(Len(keys) <= 1)

\* rotate_api_key as a function of the state: <<returned value, new index>>
rotate_api_key(keys, index) ==
    IF rotate_possible(keys)
    THEN <<TRUE, rotate_next_index(keys, index)>>
    ELSE <<FALSE, index>>

----------------------------------------------------------------------------
(* Batch planner: missing work *)

\* mutant: the subtraction is not floored at zero
missing_count_unfloored(requested, existing) == requested - existing

\* max(0, requested - existing) (lines 145-147)
missing_count(requested, existing) == Max(0, requested - existing)

\* existing_counts.get(topic, {'easy': 0, 'medium': 0, 'hard': 0}) (line 141)
existing_for(counts, topic) ==
    IF topic \in DOMAIN counts THEN counts[topic] ELSE ZeroCounts

missing_config_of(tc, counts) ==
    LET existing == existing_for(counts, tc.topic)
        e == missing_count(tc.easy, existing.easy)
        m == missing_count(tc.medium, existing.medium)
        h == missing_count(tc.hard, existing.hard)
    IN  [topic |-> tc.topic, easy |-> e, medium |-> m, hard |-> h,
         total |-> e + m + h]

\* if missing_config['total'] > 0: append (line 152)
keep_missing(mc) == mc.total > 0

\* mutant: the planner ignores what the store holds
calculate_missing_questions_all(configs, counts) == configs

calculate_missing_questions(configs, counts) ==
    SelectSeq([i \in 1..Len(configs) |-> missing_config_of(configs[i], counts)],
              keep_missing)

----------------------------------------------------------------------------
(* Results and questions *)

\* one entry of a result's questions list
Question(src, topic, difficulty, bank, level, idx, variation, req) ==
    [src |-> src, topic |-> topic, difficulty |-> difficulty, bank |-> bank,
     level |-> level, idx |-> idx, variation |-> variation, req |-> req]

\* the j-th question object of the payload answering request number req
ai_question(req, j) == Question("ai", "", "", "provider", "", j, 0, req)

Result(success, questions, generated_by, type) ==
    [success |-> success, questions |-> questions,
     total_questions |-> Len(questions),
     generated_by |-> generated_by, type |-> type]

NoResult == Result(FALSE, <<>>, "", "")

\* the single synthetic entry of a hard-error result
error_question(message) == Question("error", "error", "error", message, "", 0, 0, 0)

error_result(message, type) == Result(FALSE, <<error_question(message)>>, "error", type)

----------------------------------------------------------------------------
(* Template bank and fallback composer: _get_fallback_aptitude_questions *)

KnownTopics == {"logical_reasoning", "quantitative_aptitude", "verbal_reasoning"}

\* number of templates of each static pool of fallback_templates
pool_size(topic, difficulty) ==
    CASE topic = "logical_reasoning" /\ difficulty = "easy" -> 20
      [] topic = "logical_reasoning" /\ difficulty = "medium" -> 5
      [] topic = "logical_reasoning" /\ difficulty = "hard" -> 2
      [] topic = "quantitative_aptitude" /\ difficulty = "easy" -> 5
      [] topic = "quantitative_aptitude" /\ difficulty = "medium" -> 2
      [] topic = "quantitative_aptitude" /\ difficulty = "hard" -> 1
      [] topic = "verbal_reasoning" /\ difficulty = "easy" -> 2
      [] topic = "verbal_reasoning" /\ difficulty = "medium" -> 1
      [] topic = "verbal_reasoning" /\ difficulty = "hard" -> 1

\* a template is identified by its pool and its position in the pool as authored
Template(bank, level, idx) == [bank |-> bank, level |-> level, idx |-> idx]

\* fallback_templates[topic]: the three pools of a known topic
known_templates(topic) ==
    [d \in {"easy", "medium", "hard"} |->
        [k \in 1..pool_size(topic, d) |-> Template(topic, d, k)]]

\* base_templates: two generic templates built from the topic name, the pair
\* repeated 10 times, under the key 'easy' only
generic_templates(topic) ==
    [d \in {"easy"} |->
        [k \in 1..(2 * generic_repeat) |-> Template(topic, "generic", 2 - (k % 2))]]

\* the dictionary the static pools live in, as created at the start of a call
fresh_templates == [t \in KnownTopics |-> known_templates(t)]

\* topic_templates.get(difficulty, topic_templates.get('easy', [])): the key
\* whose list object is used
pool_key(topic_templates, difficulty) ==
    IF difficulty \in DOMAIN topic_templates THEN difficulty ELSE "easy"

\* while len(available_templates) < count: available_templates.extend(<same list>)
RECURSIVE extend_templates(_, _)
extend_templates(available, count) ==
    IF Len(available) < count
    THEN extend_templates(available \o available, count)
    ELSE available

\* mutant: the item is tagged with the level of the pool its template is from
fallback_question_pool_level(topic, difficulty, available, i) ==
    LET n == Len(available)
        template == available[(i % n) + 1]
        variation == IF i >= n THEN (i \div n) + 1 ELSE 0
    IN  Question("template", topic, template.level, template.bank, template.level,
                 template.idx, variation, 0)

\* the question emitted for loop index i (lines 2821-2839)
fallback_question(topic, difficulty, available, i) ==
    LET n == Len(available)
        template == available[(i % n) + 1]
        variation == IF i >= n THEN (i \div n) + 1 ELSE 0
    IN  Question("template", topic, difficulty, template.bank, template.level,
                 template.idx, variation, 0)

select_questions(topic, difficulty, available, count) ==
    [k \in 1..count |->
        fallback_question(topic, difficulty, available, k - 1)]

\* the body of "for difficulty in [...]" for one difficulty: the pools after it
\* (the list object is extended in place) and the questions it appended
difficulty_step(topic_config, topic_templates, difficulty) ==
    LET count == CountOf(topic_config, difficulty)
        key == pool_key(topic_templates, difficulty)
        available == extend_templates(topic_templates[key], count)
    IN  IF count > 0
        THEN [templates |-> [topic_templates EXCEPT ![key] = available],
              questions |-> select_questions(topic_config.topic, difficulty,
                                             available, count)]
        ELSE [templates |-> topic_templates, questions |-> <<>>]

RECURSIVE difficulty_loop(_, _, _)
difficulty_loop(topic_config, topic_templates, d) ==
    IF d > Len(Difficulties)
    THEN [templates |-> topic_templates, questions |-> <<>>]
    ELSE LET one == difficulty_step(topic_config, topic_templates, Difficulties[d])
             rest == difficulty_loop(topic_config, one.templates, d + 1)
         IN  [templates |-> rest.templates,
              questions |-> one.questions \o rest.questions]

\* the body of "for topic_config in topic_configs": bank is fallback_templates,
\* whose lists a known topic shares with later entries of the same call
RECURSIVE topic_loop(_, _, _)
topic_loop(configs, bank, t) ==
    IF t > Len(configs) THEN <<>>
    ELSE LET tc == configs[t]
             known == tc.topic \in DOMAIN bank
             topic_templates == IF known THEN bank[tc.topic]
                                ELSE generic_templates(tc.topic)
             done == difficulty_loop(tc, topic_templates, 1)
             bank2 == IF known THEN [bank EXCEPT ![tc.topic] = done.templates]
                      ELSE bank
         IN  done.questions \o topic_loop(configs, bank2, t + 1)

get_fallback_aptitude_questions(configs) ==
    Result(TRUE, topic_loop(configs, fresh_templates, 1),
           "fallback_templates", "aptitude_fallback")


----------------------------------------------------------------------------
(* Persisted questions: the rows _check_existing_questions reads *)

\* the text of a question: the template it was authored as with its
\* "[Variation n]" prefix, or its place in the provider's payload
question_text(q) ==
    [bank |-> q.bank, level |-> q.level, idx |-> q.idx,
     variation |-> q.variation, req |-> q.req]

\* a text as a question carries it
as_served(text) == [text |-> text, lettering |-> "mixed", padded |-> FALSE]

\* a text as a row of the store holds it
as_stored(text) == [text |-> text, lettering |-> "mixed", padded |-> TRUE]

\* question_text.lower().strip() (line 123)
normalized(t) == [text |-> t.text, lettering |-> "lower", padded |-> FALSE]

\* the k-th row of a topic and difficulty: what an earlier template fallback
\* served for the pair while the pool lasts, provider questions after that
stored_row(topic, difficulty, k) ==
    [difficulty |-> difficulty,
     question_text |->
        as_stored(question_text(
            IF topic \in KnownTopics /\ k <= pool_size(topic, difficulty)
            THEN fallback_question(topic, difficulty,
                                   known_templates(topic)[difficulty], k - 1)
            ELSE Question("ai", topic, difficulty, "provider", "", k, 0, 0)))]

\* response.data of the query for one topic, given the counts it yields
stored_rows(topic, counts) ==
    Flatten([d \in 1..Len(Difficulties) |->
                [k \in 1..CountOf(counts, Difficulties[d]) |->
                    stored_row(topic, Difficulties[d], k)]])

\* self.existing_questions_content[topic] (lines 110, 122-125)
collected_content(rows) ==
    [k \in 1..Len(rows) |-> normalized(rows[k].question_text)]

\* self.existing_questions_content after the store was queried
questions_content(counts) ==
    [t \in DOMAIN counts |-> collected_content(stored_rows(t, counts[t]))]

----------------------------------------------------------------------------
(* Inputs of the planner and of the fallback composer, called on their own *)

PlannerTopics == {"verbal_reasoning", "data_structures"}

FallbackTopics == {"verbal_reasoning", "quantitative_aptitude", "data_structures"}

\* requested counts: nothing at all, or every split of MaxCount between easy
\* and medium, with and without one hard question
RequestedBreakdowns ==
    {<<e, MaxCount - e, h>> : e \in 0..MaxCount, h \in 0..1} \cup {<<0, 0, 0>>}

\* persisted counts of a topic the store knows
ExistingBreakdowns == {<<1, 1, 1>>, <<0, MaxCount, 0>>}

RequestsOver(topics) ==
    {TopicRequest(t, b[1], b[2], b[3]) : t \in topics, b \in RequestedBreakdowns}

ListsOver(S, n) == UNION {[1..k -> S] : k \in 0..n}

\* ExistingCountMaps: a topic is absent, or present with its three counts
ExistingMaps(topics) ==
    UNION {[D -> {[easy |-> b[1], medium |-> b[2], hard |-> b[3]] :
                    b \in ExistingBreakdowns}] : D \in SUBSET topics}

\* the calls are made without an application id
NoApplication == application = <<>>

\* one workflow at a time uses the instance
NoThreads == threads = <<>> /\ serialized = TRUE

IdleLocals ==
    /\ key_attempt = 0
    /\ retry = 0
    /\ current_api_key = "None"
    /\ batch_i = 0
    /\ all_questions = <<>>
    /\ result = NoResult
    /\ log = <<>>
    /\ inflight = 0
    /\ rot_start = 0
    /\ rot_calls = 0
    /\ rotate_ret = FALSE
    /\ last_op = "init"
    /\ path = "none"
    /\ entry = "none"
    /\ args = <<>>
    /\ used_reading_templates = {}
    /\ used_listening_templates = {}
    /\ used_grammar_templates = {}
    /\ trace = <<>>
    /\ skill = "none"
    /\ existing_questions_content = <<>>
    /\ previous = NoResult

(* _calculate_missing_questions called on every pair of inputs *)

InitMissing ==
    /\ api_keys = <<>>
    /\ current_key_index = 0
    /\ pc = "args"
    /\ topic_configs \in ListsOver(RequestsOver(PlannerTopics), MaxListLen)
    /\ existing_counts \in ExistingMaps(PlannerTopics)
    /\ missing_configs = <<>>
    /\ IdleLocals
    /\ NoThreads
    /\ NoApplication

CalculateMissing ==
    /\ pc = "args"
    /\ missing_configs' = calculate_missing_questions(topic_configs, existing_counts)
    /\ pc' = "returned"
    /\ UNCHANGED <<api_keys, current_key_index, topic_configs, existing_counts,
                   key_attempt, retry, current_api_key, batch_i, all_questions,
                   result, log, inflight, rot_start, rot_calls, rotate_ret, last_op,
                   path>>
    /\ UNCHANGED commVars
    /\ UNCHANGED storeVars
    /\ UNCHANGED threadVars
    /\ UNCHANGED backendVars

NextMissing == CalculateMissing

SpecMissing == InitMissing /\ [][NextMissing]_vars

\* the request {logical_reasoning: easy=3, medium=0, hard=0}
FallbackScenarios == {<<TopicRequest("logical_reasoning", 3, 0, 0)>>}

(* _get_fallback_aptitude_questions called on every request list, twice in a *)
(* row on the same instance                                                  *)

InitFallback ==
    /\ api_keys = <<>>
    /\ current_key_index = 0
    /\ pc = "args"
    /\ topic_configs \in
          ListsOver(RequestsOver(FallbackTopics), MaxListLen) \cup FallbackScenarios
    /\ existing_counts = <<>>
    /\ missing_configs = <<>>
    /\ IdleLocals
    /\ NoThreads
    /\ NoApplication

ComposeFallback ==
    /\ pc \in {"args", "returned"}
    /\ previous' = result
    /\ result' = get_fallback_aptitude_questions(topic_configs)
    /\ pc' = IF pc = "args" THEN "returned" ELSE "returned_again"
    /\ UNCHANGED <<api_keys, current_key_index, topic_configs, existing_counts,
                   missing_configs, key_attempt, retry, current_api_key, batch_i,
                   all_questions, log, inflight, rot_start, rot_calls,
                   rotate_ret, last_op, path>>
    /\ UNCHANGED commVars
    /\ UNCHANGED existing_questions_content
    /\ UNCHANGED threadVars
    /\ UNCHANGED backendVars

NextFallback == ComposeFallback

SpecFallback == InitFallback /\ [][NextFallback]_vars

----------------------------------------------------------------------------
(* The generator instance: generate_aptitude_questions_by_topic *)

KeyNames == <<"gsk_a", "gsk_b", "gsk_c", "gsk_d", "gsk_e">>

CallTopics ==
    <<"logical_reasoning", "verbal_reasoning", "data_structures",
      "quantitative_aptitude">>

CallTopic(i) == CallTopics[((i - 1) % Len(CallTopics)) + 1]

\* requested counts of one topic in a generation call: totals of 15 and 31
CallBreakdowns == {<<10, 5, 0>>, <<10, 10, 11>>}

\* persisted counts of one topic at the time of a generation call
CallExisting == {<<0, 0, 1>>, <<10, 10, 10>>}

\* request lists: the i-th entry asks for topic CallTopic(i)
CallRequests ==
    UNION {{[i \in 1..k |-> TopicRequest(CallTopic(i), f[i][1], f[i][2], f[i][3])] :
              f \in [1..k -> CallBreakdowns]} : k \in 0..MaxTopics}

\* what _check_existing_questions can return for a request list: {} without a
\* database connection or on a query error, else one entry per requested topic
check_existing_questions(configs) ==
    LET topics == {configs[i].topic : i \in 1..Len(configs)}
    IN  {<<>>} \cup
        [topics -> {[easy |-> b[1], medium |-> b[2], hard |-> b[3]] :
                      b \in CallExisting}]

\* provider behaviour on one request for `total` questions: a status, and for
\* status 200 the kind of the payload and the number of question objects in it
Response(status, kind, n) == [status |-> status, kind |-> kind, n |-> n]

Responses(total) ==
    {Response(429, "none", 0), Response(500, "none", 0), Response(0, "timeout", 0)}
    \cup {Response(200, k, 0) : k \in {"empty", "truncated", "invalid", "not_object"}}
    \cup {Response(200, "questions", n) : n \in {0, total - 1, total, total + 1}}

Event(ev, key, topics, status, kind, n, secs) ==
    [ev |-> ev, key |-> key, topics |-> topics, status |-> status,
     kind |-> kind, n |-> n, secs |-> secs]

PostEvent(key, configs) ==
    Event("post", key, [i \in 1..Len(configs) |-> configs[i].topic], 0, "", 0, 0)

ResponseEvent(r) == Event("response", "", <<>>, r.status, r.kind, r.n, 0)

SleepEvent(secs) == Event("sleep", "", <<>>, 0, "", 0, secs)

EventsOf(events, ev) == SelectSeq(events, LAMBDA e : e.ev = ev)

\* generated_questions[:total] of the payload answering request number req
trimmed_questions(req, n, total) ==
    [j \in 1..(IF n > total THEN total ELSE n) |-> ai_question(req, j)]

\* mutant: the threshold is inclusive
use_batches_inclusive(missing_total) == missing_total >= batch_threshold

\* if missing_total > 30 (line 2088)
use_batches(missing_total) == missing_total > batch_threshold

\* mutant: a rate-limited credential is retried twice
retry_allowed_twice(r) == r < max_retries_per_key

\* if retry < max_retries_per_key - 1 (line 2188)
retry_allowed(r) == r < max_retries_per_key - 1

\* retry_delay = 5 * (retry + 1) (line 2189)
retry_delay(r) == retry_delay_unit * (r + 1)

\* mutant: the slice takes one topic too many
batch_slice_wide(configs, i) == Slice(configs, i, i + batch_size + 1)

\* batch_topics = topic_configs[i:i + batch_size] (line 2333)
batch_slice(configs, i) == Slice(configs, i, i + batch_size)

\* mutant: the loop over the sub-batches stops one topic early
more_batches_stop_early(i, n) == i + batch_size + 1 < n

\* for i in range(0, len(topic_configs), batch_size): another iteration
\* follows the one at i (line 2332)
more_batches(i, n) == i + batch_size < n

\* mutant: the delay is taken after the last sub-batch too
sleep_between_always(i, n) == TRUE

\* if i + batch_size < len(topic_configs): time.sleep(3) (line 2348)
sleep_between(i, n) == i + batch_size < n

\* mutant: a payload that fails to parse is replaced by template questions
single_result_parse_templates(r, req, configs) ==
    CASE r.kind = "timeout" -> error_result("exception", "exception_error")
      [] r.status = 200 /\ r.kind = "empty" ->
            error_result("empty response", "empty_response_error")
      [] r.status = 200 /\ r.kind = "not_object" ->
            error_result("exception", "exception_error")
      [] r.status = 200 /\ r.kind = "questions" ->
            Result(TRUE, trimmed_questions(req, r.n, total_of(configs)),
                   "groq_ai_single", "aptitude_by_topic")
      [] OTHER -> get_fallback_aptitude_questions(configs)

\* mutant: a status other than 200 and 429 is reported as a hard error
single_result_status_error(r, req, configs) ==
    CASE r.kind = "timeout" -> error_result("exception", "exception_error")
      [] r.status = 200 /\ r.kind = "empty" ->
            error_result("empty response", "empty_response_error")
      [] r.status = 200 /\ r.kind = "truncated" ->
            error_result("truncated", "truncated_response_error")
      [] r.status = 200 /\ r.kind = "invalid" ->
            error_result("parsing failed", "json_parse_error")
      [] r.status = 200 /\ r.kind = "not_object" ->
            error_result("exception", "exception_error")
      [] r.status = 200 /\ r.kind = "questions" ->
            Result(TRUE, trimmed_questions(req, r.n, total_of(configs)),
                   "groq_ai_single", "aptitude_by_topic")
      [] OTHER -> error_result("API returned status", "aptitude_api_error")

\* what the single-call path returns for a response that is not a 429
\* (lines 2214-2308 and the handler at 2310-2325)
single_result(r, req, configs) ==
    CASE r.kind = "timeout" -> error_result("exception", "exception_error")
      [] r.status = 200 /\ r.kind = "empty" ->
            error_result("empty response", "empty_response_error")
      [] r.status = 200 /\ r.kind = "truncated" ->
            error_result("truncated", "truncated_response_error")
      [] r.status = 200 /\ r.kind = "invalid" ->
            error_result("parsing failed", "json_parse_error")
      [] r.status = 200 /\ r.kind = "not_object" ->
            error_result("exception", "exception_error")
      [] r.status = 200 /\ r.kind = "questions" ->
            Result(TRUE, trimmed_questions(req, r.n, total_of(configs)),
                   "groq_ai_single", "aptitude_by_topic")
      [] OTHER -> get_fallback_aptitude_questions(configs)

\* mutant: a failed sub-batch is reported as a success carrying an error entry
single_batch_result_error_entry(r, req, configs) ==
    IF r.status = 200 /\ r.kind = "questions"
    THEN [success |-> TRUE,
          questions |-> trimmed_questions(req, r.n, total_of(configs))]
    ELSE [success |-> TRUE, questions |-> <<error_question("batch failed")>>]

\* what _generate_single_batch returns (lines 2441-2483)
single_batch_result(r, req, configs) ==
    IF r.status = 200 /\ r.kind = "questions"
    THEN [success |-> TRUE,
          questions |-> trimmed_questions(req, r.n, total_of(configs))]
    ELSE [success |-> FALSE, questions |-> <<>>]

\* mutant: the batched path tags its result like the single-call path
batches_result_single_tag(questions) ==
    IF questions # <<>>
    THEN Result(TRUE, questions, "groq_ai_single", "aptitude_by_topic")
    ELSE error_result("All batches failed", "all_batches_failed")

\* mutant: a batched call without questions falls back to the templates
batches_result_templates(questions) ==
    IF questions # <<>>
    THEN Result(TRUE, questions, "groq_ai_batched", "aptitude_by_topic")
    ELSE get_fallback_aptitude_questions(missing_configs)

\* what _generate_aptitude_in_batches returns (lines 2352-2375)
batches_result(questions) ==
    IF questions # <<>>
    THEN Result(TRUE, questions, "groq_ai_batched", "aptitude_by_topic")
    ELSE error_result("All batches failed", "all_batches_failed")

none_needed_result == Result(TRUE, <<>>, "none_needed", "all_questions_exist")

Init ==
    /\ api_keys \in {SubSeq(KeyNames, 1, n) : n \in 0..MaxKeys}
    /\ current_key_index = 0
    /\ pc = "idle"
    /\ topic_configs = <<>>
    /\ existing_counts = <<>>
    /\ missing_configs = <<>>
    /\ IdleLocals
    /\ NoThreads
    /\ NoApplication

rotVars == <<rot_start, rot_calls, rotate_ret>>

\* the public method rotate_api_key, called between generation calls
Rotate ==
    /\ pc = "idle"
    /\ LET r == rotate_api_key(api_keys, current_key_index)
           continues == last_op = "rotate" /\ rot_calls < Len(api_keys)
       IN  /\ rotate_ret' = r[1]
           /\ current_key_index' = r[2]
           /\ rot_start' = IF continues THEN rot_start ELSE current_key_index
           /\ rot_calls' = IF continues THEN rot_calls + 1 ELSE 1
    /\ last_op' = "rotate"
    /\ UNCHANGED <<api_keys, pc, topic_configs, existing_counts, missing_configs,
                   key_attempt, retry, current_api_key, batch_i, all_questions,
                   result, log, inflight, path>>
    /\ UNCHANGED commVars
    /\ UNCHANGED storeVars
    /\ UNCHANGED threadVars
    /\ UNCHANGED backendVars

\* generate_aptitude_questions_by_topic up to its first provider request
\* (lines 2060-2094 and 2161-2165)
StartCall ==
    /\ pc = "idle"
    /\ \E configs \in CallRequests :
        /\ topic_configs' = configs
        /\ IF api_keys = <<>>
           THEN /\ result' = get_fallback_aptitude_questions(configs)
                /\ pc' = "done"
                /\ path' = "no_credentials"
                /\ existing_counts' = <<>>
                /\ existing_questions_content' = <<>>
                /\ missing_configs' = <<>>
                /\ current_api_key' = "None"
           ELSE \E counts \in check_existing_questions(configs) :
                LET missing == calculate_missing_questions(configs, counts)
                IN  /\ existing_counts' = counts
                    /\ existing_questions_content' = questions_content(counts)
                    /\ missing_configs' = missing
                    /\ IF missing = <<>>
                       THEN /\ result' = none_needed_result
                            /\ pc' = "done"
                            /\ path' = "none_needed"
                            /\ current_api_key' = "None"
                       ELSE IF use_batches(total_of(missing))
                       THEN /\ result' = NoResult
                            /\ pc' = "batch_post"
                            /\ path' = "batched"
                            /\ current_api_key' = "None"
                       ELSE /\ result' = NoResult
                            /\ pc' = "single_post"
                            /\ path' = "single"
                            /\ current_api_key' =
                                  get_current_api_key(api_keys, current_key_index)
    /\ key_attempt' = 0
    /\ retry' = 0
    /\ batch_i' = 0
    /\ all_questions' = <<>>
    /\ log' = <<>>
    /\ inflight' = 0
    /\ rot_start' = 0
    /\ rot_calls' = 0
    /\ rotate_ret' = FALSE
    /\ last_op' = "generate"
    /\ UNCHANGED <<api_keys, current_key_index>>
    /\ UNCHANGED commVars
    /\ UNCHANGED previous
    /\ UNCHANGED threadVars
    /\ UNCHANGED backendVars

\* requests.post of the single-call path (line 2169)
SinglePost ==
    /\ pc = "single_post"
    /\ log' = Append(log, PostEvent(current_api_key, missing_configs))
    /\ inflight' = inflight + 1
    /\ pc' = "single_wait"
    /\ UNCHANGED <<api_keys, current_key_index, topic_configs, existing_counts,
                   missing_configs, key_attempt, retry, current_api_key, batch_i,
                   all_questions, result, rotVars, last_op, path>>
    /\ UNCHANGED commVars
    /\ UNCHANGED storeVars
    /\ UNCHANGED threadVars
    /\ UNCHANGED backendVars

\* the response of the single-call path and everything up to the next request
\* or the return (lines 2187-2325)
SingleResponse ==
    /\ pc = "single_wait"
    /\ \E r \in Responses(total_of(missing_configs)) :
        LET answered == Append(log, ResponseEvent(r))
            req == Len(EventsOf(log, "post"))
        IN  IF r.status = 429
            THEN IF retry_allowed(retry)
                 THEN /\ log' = Append(answered, SleepEvent(retry_delay(retry)))
                      /\ retry' = retry + 1
                      /\ pc' = "single_post"
                      /\ UNCHANGED <<current_key_index, key_attempt,
                                     current_api_key, result, rotate_ret>>
                 ELSE LET rot == rotate_api_key(api_keys, current_key_index)
                      IN  /\ log' = answered
                          /\ rotate_ret' = rot[1]
                          /\ current_key_index' = rot[2]
                          /\ IF key_attempt + 1 < Len(api_keys)
                             THEN /\ key_attempt' = key_attempt + 1
                                  /\ retry' = 0
                                  /\ current_api_key' =
                                        get_current_api_key(api_keys, rot[2])
                                  /\ pc' = "single_post"
                                  /\ UNCHANGED result
                             ELSE /\ result' =
                                        get_fallback_aptitude_questions(missing_configs)
                                  /\ pc' = "done"
                                  /\ UNCHANGED <<key_attempt, retry, current_api_key>>
            ELSE /\ log' = answered
                 /\ result' = single_result(r, req, missing_configs)
                 /\ pc' = "done"
                 /\ UNCHANGED <<current_key_index, key_attempt, retry,
                                current_api_key, rotate_ret>>
    /\ inflight' = inflight - 1
    /\ UNCHANGED <<api_keys, topic_configs, existing_counts, missing_configs,
                   batch_i, all_questions, rot_start, rot_calls, last_op, path>>
    /\ UNCHANGED commVars
    /\ UNCHANGED storeVars
    /\ UNCHANGED threadVars
    /\ UNCHANGED backendVars

\* requests.post of _generate_single_batch for the sub-batch at batch_i
\* (lines 2333-2339, 2421-2439)
BatchPost ==
    /\ pc = "batch_post"
    /\ current_api_key' = get_current_api_key(api_keys, current_key_index)
    /\ log' = Append(log, PostEvent(current_api_key',
                                    batch_slice(missing_configs, batch_i)))
    /\ inflight' = inflight + 1
    /\ pc' = "batch_wait"
    /\ UNCHANGED <<api_keys, current_key_index, topic_configs, existing_counts,
                   missing_configs, key_attempt, retry, batch_i, all_questions,
                   result, rotVars, last_op, path>>
    /\ UNCHANGED commVars
    /\ UNCHANGED storeVars
    /\ UNCHANGED threadVars
    /\ UNCHANGED backendVars

\* the response to a sub-batch and everything up to the next sub-batch or the
\* return (lines 2341-2375, 2441-2483)
BatchResponse ==
    /\ pc = "batch_wait"
    /\ \E r \in Responses(total_of(batch_slice(missing_configs, batch_i))) :
        LET answered == Append(log, ResponseEvent(r))
            req == Len(EventsOf(log, "post"))
            batch_result == single_batch_result(r, req,
                                batch_slice(missing_configs, batch_i))
            rot == rotate_api_key(api_keys, current_key_index)
            questions == IF batch_result.success
                         THEN all_questions \o batch_result.questions
                         ELSE all_questions
        IN  /\ IF r.status = 429
               THEN /\ rotate_ret' = rot[1]
                    /\ current_key_index' = rot[2]
               ELSE UNCHANGED <<rotate_ret, current_key_index>>
            /\ all_questions' = questions
            /\ log' = IF sleep_between(batch_i, Len(missing_configs))
                      THEN Append(answered, SleepEvent(batch_delay))
                      ELSE answered
            /\ IF more_batches(batch_i, Len(missing_configs))
               THEN /\ batch_i' = batch_i + batch_size
                    /\ pc' = "batch_post"
                    /\ UNCHANGED result
               ELSE /\ result' = batches_result(questions)
                    /\ pc' = "done"
                    /\ UNCHANGED batch_i
    /\ inflight' = inflight - 1
    /\ UNCHANGED <<api_keys, topic_configs, existing_counts, missing_configs,
                   key_attempt, retry, current_api_key, rot_start, rot_calls,
                   last_op, path>>
    /\ UNCHANGED commVars
    /\ UNCHANGED storeVars
    /\ UNCHANGED threadVars
    /\ UNCHANGED backendVars

\* the caller takes the result; the locals of the call are gone
Return ==
    /\ pc = "done"
    /\ pc' = "idle"
    /\ topic_configs' = <<>>
    /\ existing_counts' = <<>>
    /\ existing_questions_content' = <<>>
    /\ missing_configs' = <<>>
    /\ key_attempt' = 0
    /\ retry' = 0
    /\ current_api_key' = "None"
    /\ batch_i' = 0
    /\ all_questions' = <<>>
    /\ result' = NoResult
    /\ log' = <<>>
    /\ path' = "none"
    /\ UNCHANGED <<api_keys, current_key_index, inflight, rotVars, last_op>>
    /\ UNCHANGED commVars
    /\ UNCHANGED previous
    /\ UNCHANGED threadVars
    /\ UNCHANGED backendVars

Next ==
    \/ Rotate
    \/ StartCall
    \/ SinglePost
    \/ SingleResponse
    \/ BatchPost
    \/ BatchResponse
    \/ Return

Spec == Init /\ [][Next]_vars

----------------------------------------------------------------------------
(* The direct aptitude entry points: generate_aptitude_questions_by_difficulty *)
(* and generate_aptitude_questions. A result is written flat: the keys        *)
(* generated_by and type stand for metadata.generated_by and metadata.type.   *)

DirectEntries ==
    {"generate_aptitude_questions_by_difficulty", "generate_aptitude_questions"}

\* an exception that leaves the entry point instead of a result
raised(exc) == [raised |-> exc]

\* difficulty_levels arguments of generate_aptitude_questions_by_difficulty
DifficultyLevels ==
    {<<[level |-> "easy", count |-> 2]>>,
     <<[level |-> "easy", count |-> 1], [level |-> "medium", count |-> 0],
       [level |-> "hard", count |-> 2]>>}

\* topics: List[str] = None of generate_aptitude_questions
DefaultTopics == <<"logical_reasoning", "quantitative_aptitude", "verbal_ability">>

\* arguments of generate_aptitude_questions: topics_with_difficulty, or the
\* legacy pair topics / questions_per_topic
AptitudeArguments ==
    {[topics_with_difficulty |->
          <<[topic |-> "logical_reasoning", difficulty |-> "easy", count |-> 2],
            [topic |-> "data_structures", difficulty |-> "hard", count |-> 1]>>,
      topics |-> <<>>, questions_per_topic |-> 1],
     [topics_with_difficulty |-> <<>>, topics |-> <<>>, questions_per_topic |-> 1],
     [topics_with_difficulty |-> <<>>, topics |-> <<"verbal_ability">>,
      questions_per_topic |-> 2]}

DirectArguments(e) ==
    IF e = "generate_aptitude_questions_by_difficulty"
    THEN {[difficulty_levels |-> d] : d \in DifficultyLevels}
    ELSE AptitudeArguments

\* total_questions as each entry point computes it for its prompt
\* (lines 2494, 2598-2604, 2637-2638)
requested_total(e, a) ==
    IF e = "generate_aptitude_questions_by_difficulty"
    THEN SumSeq([i \in 1..Len(a.difficulty_levels) |-> a.difficulty_levels[i].count])
    ELSE IF a.topics_with_difficulty # <<>>
    THEN SumSeq([i \in 1..Len(a.topics_with_difficulty) |->
                    a.topics_with_difficulty[i].count])
    ELSE Len(IF a.topics # <<>> THEN a.topics ELSE DefaultTopics)
            * a.questions_per_topic

\* provider behaviour on a direct request: for status 200 the kind of the
\* content, the number n of objects under its 'questions' key and the value
\* it gives under 'total_questions'
DirectResponse(status, kind, n, declared) ==
    [status |-> status, kind |-> kind, n |-> n, declared |-> declared]

DirectResponses(total) ==
    {DirectResponse(429, "none", 0, 0), DirectResponse(500, "none", 0, 0),
     DirectResponse(0, "timeout", 0, 0)}
    \cup {DirectResponse(200, k, 0, 0) : k \in {"empty", "invalid", "not_object"}}
    \cup {DirectResponse(200, k, n, d) :
            k \in {"questions", "questions_only"},
            n \in {total - 1, total, total + 1}, d \in {total}}
    \cup {DirectResponse(200, "questions", n, n) : n \in {total - 1, total + 1}}

\* the questions_data a status 200 content parses to, an object shaped as the
\* prompt asks (questions, total_questions, metadata.generated_by) or an
\* object holding the questions list alone
questions_data(r, req) ==
    IF r.kind = "questions"
    THEN [questions |-> [j \in 1..r.n |-> ai_question(req, j)],
          total_questions |-> r.declared, generated_by |-> "groq"]
    ELSE [questions |-> [j \in 1..r.n |-> ai_question(req, j)]]

\* {'success': True, **questions_data} (lines 2565, 2696)
success_with(data) ==
    [k \in {"success"} \cup DOMAIN data |->
        IF k \in DOMAIN data THEN data[k] ELSE TRUE]

\* the handler "except Exception" of both entry points, and their branch for
\* an empty credential set, call _get_fallback_aptitude_questions(topic_configs,
\* ...) where no name topic_configs is bound (lines 2491, 2586, 2595, 2717)
direct_fallback == raised("NameError")

\* what a direct entry point returns or raises for a response
\* (lines 2537-2586, 2671-2717)
direct_result(r, req) ==
    CASE r.kind = "timeout" -> direct_fallback
      [] r.status = 200 /\ r.kind \in {"empty", "invalid", "not_object"} ->
            direct_fallback
      [] r.status = 200 /\ r.kind \in {"questions", "questions_only"} ->
            success_with(questions_data(r, req))
      [] OTHER -> error_result("API returned status", "aptitude_api_error")

\* a direct entry point up to its provider request (lines 2488-2536, 2592-2670)
StartDirect ==
    /\ pc = "idle"
    /\ \E e \in DirectEntries : \E a \in DirectArguments(e) :
        /\ entry' = e
        /\ args' = a
    /\ IF api_keys = <<>>
       THEN /\ result' = direct_fallback
            /\ pc' = "done"
            /\ path' = "no_credentials"
            /\ current_api_key' = "None"
       ELSE /\ result' = NoResult
            /\ pc' = "direct_post"
            /\ path' = "direct"
            /\ current_api_key' = get_current_api_key(api_keys, current_key_index)
    /\ log' = <<>>
    /\ last_op' = "generate"
    /\ UNCHANGED <<api_keys, current_key_index, topic_configs, existing_counts,
                   missing_configs, key_attempt, retry, batch_i, all_questions,
                   inflight, rotVars, used_reading_templates,
                   used_listening_templates, used_grammar_templates, trace, skill>>
    /\ UNCHANGED storeVars
    /\ UNCHANGED threadVars
    /\ UNCHANGED backendVars

\* requests.post of a direct entry point (lines 2537, 2672)
DirectPost ==
    /\ pc = "direct_post"
    /\ log' = Append(log, Event("post", current_api_key, <<>>, 0, "", 0, 0))
    /\ inflight' = inflight + 1
    /\ pc' = "direct_wait"
    /\ UNCHANGED <<api_keys, current_key_index, topic_configs, existing_counts,
                   missing_configs, key_attempt, retry, current_api_key, batch_i,
                   all_questions, result, rotVars, last_op, path>>
    /\ UNCHANGED commVars
    /\ UNCHANGED storeVars
    /\ UNCHANGED threadVars
    /\ UNCHANGED backendVars

\* the response to a direct request and the return (lines 2555-2586, 2690-2717)
DirectAnswer ==
    /\ pc = "direct_wait"
    /\ \E r \in DirectResponses(requested_total(entry, args)) :
        /\ log' = Append(log, Event("response", "", <<>>, r.status, r.kind,
                                     r.n, 0))
        /\ result' = direct_result(r, Len(EventsOf(log, "post")))
    /\ inflight' = inflight - 1
    /\ pc' = "done"
    /\ UNCHANGED <<api_keys, current_key_index, topic_configs, existing_counts,
                   missing_configs, key_attempt, retry, current_api_key, batch_i,
                   all_questions, rotVars, last_op, path>>
    /\ UNCHANGED commVars
    /\ UNCHANGED storeVars
    /\ UNCHANGED threadVars
    /\ UNCHANGED backendVars

\* the caller takes the result, or the exception; the locals of the call are gone
ReturnDirect ==
    /\ pc = "done"
    /\ entry \in DirectEntries
    /\ pc' = "idle"
    /\ entry' = "none"
    /\ args' = <<>>
    /\ current_api_key' = "None"
    /\ result' = NoResult
    /\ log' = <<>>
    /\ path' = "none"
    /\ UNCHANGED <<api_keys, current_key_index, topic_configs, existing_counts,
                   missing_configs, key_attempt, retry, batch_i, all_questions,
                   inflight, rotVars, last_op, used_reading_templates,
                   used_listening_templates, used_grammar_templates, trace, skill>>
    /\ UNCHANGED storeVars
    /\ UNCHANGED threadVars
    /\ UNCHANGED backendVars

NextDirect ==
    \/ StartDirect
    \/ DirectPost
    \/ DirectAnswer
    \/ ReturnDirect

SpecDirect == Init /\ [][NextDirect]_vars

----------------------------------------------------------------------------
(* Communication questions *)

\* dict.get(key, default)
dict_get(d, key, default) == IF key \in DOMAIN d THEN d[key] ELSE default

\* the text of a question (passage, audio_text or question sentence): head is
\* what its first characters tell apart, tail the rest
template_text(bank, idx) == [head |-> <<bank, idx>>, tail |-> "template"]

\* the j-th item of the payload answering request number req
ai_text(req, j) == [head |-> <<"provider", req, j>>, tail |-> "provider"]

\* the option labels of every question written in the source
OptionLabels == {"A", "B", "C", "D"}

\* one communication entry of a result's questions list; a grammar entry is
\* multiple choice: options is the set of its option labels, and
\* correct_answer_listed tells whether its correct_answer is one of them.
\* Every grammar template and error entry of the source has the labels A to
\* D and one of them as its answer.
comm_question(sk, src, topic, difficulty, text) ==
    LET q == [skill |-> sk, src |-> src, topic |-> topic,
              difficulty |-> difficulty, text |-> text]
    IN  IF sk = "grammar"
        THEN q @@ [options |-> OptionLabels, correct_answer_listed |-> TRUE]
        ELSE q

Skills == <<"reading", "listening", "grammar">>

\* the entry _get_fallback_structured_communication adds for a skill
skill_error_question(sk) ==
    comm_question(sk, "error", "", "error",
                  [head |-> <<"error", sk>>, tail |-> "AI not able to generate"])

\* _get_fallback_structured_communication (lines 2007-2055)
get_fallback_structured_communication(skills) ==
    Result(FALSE,
           [k \in 1..Len(SelectSeq(Skills, LAMBDA sk : sk \in skills)) |->
               skill_error_question(SelectSeq(Skills, LAMBDA sk : sk \in skills)[k])],
           "error_fallback", "structured_communication_error")

----------------------------------------------------------------------------
(* generate_structured_communication_assessment and its batch generators *)

grammar_pool_size == 15      \* templates per grammar topic and difficulty

GrammarTemplateTopics == {"tenses", "articles", "prepositions"}

\* len(reading_templates[d]), len(listening_templates[d]) and
\* len(grammar_templates[topic][d]) of the structured template fallbacks
structured_pool_size(sk, difficulty) ==
    CASE sk = "reading" /\ difficulty = "easy" -> 3
      [] sk = "reading" /\ difficulty = "medium" -> 2
      [] sk = "reading" /\ difficulty = "hard" -> 1
      [] sk = "listening" /\ difficulty = "easy" -> 3
      [] sk = "listening" /\ difficulty = "medium" -> 3
      [] sk = "listening" /\ difficulty = "hard" -> 1
      [] sk = "grammar" -> grammar_pool_size

\* the counts dictionary a batch generator reads for a skill: reading_config,
\* or listening_config.get('sentences', {})
counts_of(sk, a) ==
    IF sk = "reading" THEN a.reading_config
    ELSE dict_get(a.listening_config, "sentences", <<>>)

difficulty_count(counts, difficulty) == dict_get(counts, difficulty, 0)

counts_total(counts) ==
    SumSeq([d \in 1..Len(Difficulties) |-> difficulty_count(counts, Difficulties[d])])

\* topic_questions.get(topic, {}) of grammar_config
grammar_topic_config(a, topic) ==
    dict_get(dict_get(a.grammar_config, "topicQuestions", <<>>), topic, <<>>)

grammar_topics(a) == dict_get(a.grammar_config, "topics", <<>>)

\* total_questions of a batch generator (lines 430, 698, 1025-1036)
skill_total(sk, a) ==
    IF sk = "grammar"
    THEN SumSeq([t \in 1..Len(grammar_topics(a)) |->
                    counts_total(grammar_topic_config(a, grammar_topics(a)[t]))])
    ELSE counts_total(counts_of(sk, a))

\* "if '<skill>' in skills and <skill>_config" of the entry point, and the
\* early returns of the batch generator before its request
\* (lines 280-291, 425-432, 692-700, 1013-1039)
batch_requested(sk, a) ==
    /\ sk \in a.skills
    /\ DOMAIN (IF sk = "reading" THEN a.reading_config
               ELSE IF sk = "listening" THEN a.listening_config
               ELSE a.grammar_config) # {}
    /\ sk = "grammar" => grammar_topics(a) # <<>>
    /\ skill_total(sk, a) > 0

\* "for i in range(count)" of a template fallback over one pool
pool_questions(sk, topic, difficulty, count) ==
    [k \in 1..count |->
        comm_question(sk, "template", topic, difficulty,
            template_text(<<sk, topic, difficulty>>,
                          (k - 1) % structured_pool_size(sk, difficulty)))]

\* the three loops of _generate_reading_from_templates and of
\* _generate_listening_from_templates, the inner loop of the grammar one
counts_from_templates(sk, topic, counts) ==
    Flatten([d \in 1..Len(Difficulties) |->
        pool_questions(sk, topic, Difficulties[d],
                       difficulty_count(counts, Difficulties[d]))])

\* "if topic in grammar_templates" (lines 1310-1337)
grammar_topic_from_templates(a, topic) ==
    IF topic \in GrammarTemplateTopics
    THEN counts_from_templates("grammar", topic, grammar_topic_config(a, topic))
    ELSE <<>>

\* _generate_reading_from_templates, _generate_listening_from_templates and
\* _generate_grammar_from_templates (lines 517-588, 786-862, 1139-1340)
generate_from_templates(sk, a) ==
    IF sk = "grammar"
    THEN Flatten([t \in 1..Len(grammar_topics(a)) |->
                    grammar_topic_from_templates(a, grammar_topics(a)[t])])
    ELSE counts_from_templates(sk, "", counts_of(sk, a))

\* the questions a batch generator builds from a parsed payload of n items:
\* every item, whatever the requested total (lines 487-506, 755-775, 1106-1128)
batch_ai_questions(sk, req, n) ==
    [j \in 1..n |-> comm_question(sk, "ai", "", "", ai_text(req, j))]

\* 'options': q_data['options'], 'correct_answer': q_data['correct_answer']
\* (lines 1115-1116) for a payload whose items have three options and an
\* answer that is none of them
options_as_sent(questions) ==
    [k \in 1..Len(questions) |->
        [questions[k] EXCEPT !.options = {"A", "B", "C"},
                             !.correct_answer_listed = FALSE]]

\* what a batch generator returns for a response (lines 480-515, 748-784,
\* 1099-1137)
batch_questions(sk, a, r, req) ==
    CASE r.status = 200 /\ r.kind = "questions" ->
            batch_ai_questions(sk, req, r.n)
      [] r.status = 200 /\ r.kind = "odd_options" ->
            options_as_sent(batch_ai_questions(sk, req, r.n))
      [] r.status = 200 /\ r.kind = "empty_object" ->
            \* "for passage_data in passages_data" over {} runs no iteration
            <<>>
      [] OTHER -> generate_from_templates(sk, a)

----------------------------------------------------------------------------
(* Inputs of the structured entry point *)

StructuredSkills == {{"reading", "listening", "grammar"}, {"grammar"}, {"reading"}, {}}

ReadingConfigs == {<<>>, [easy |-> 1, hard |-> 2]}

ListeningConfigs == {[sentences |-> [easy |-> 2]], [sentences |-> <<>>]}

GrammarConfigs ==
    {[topics |-> <<"tenses", "punctuation">>,
      topicQuestions |-> ("tenses" :> [easy |-> 1] @@ "punctuation" :> [medium |-> 2])],
     [topics |-> <<>>, topicQuestions |-> <<>>]}

StructuredArguments ==
    [skills : StructuredSkills, reading_config : ReadingConfigs,
     listening_config : ListeningConfigs, grammar_config : GrammarConfigs]

\* provider behaviour on a batch request for `total` items
BatchResponses(total) ==
    {Response(429, "none", 0), Response(0, "timeout", 0),
     Response(200, "invalid", 0), Response(200, "empty_object", 0)}
    \cup {Response(200, "questions", n) : n \in {total - 1, total, total + 1}}

\* provider behaviour on the batch request of a skill: a grammar payload may
\* also hold well-formed items whose options are not four labels with the
\* answer among them
SkillResponses(sk, total) ==
    BatchResponses(total) \cup
    (IF sk = "grammar" THEN {Response(200, "odd_options", total)} ELSE {})

\* the position after the batch of a skill: the next skill, or the return
after_skill(sk) ==
    CASE sk = "reading" -> "listening"
      [] sk = "listening" -> "grammar"
      [] sk = "grammar" -> "none"

\* the result of the entry point once the three skills are through
\* (lines 294-302)
structured_result(questions) ==
    Result(TRUE, questions, "groq", "structured_communication")

\* generate_structured_communication_assessment up to the first skill
\* (lines 271-279)
StartStructured ==
    /\ pc = "idle"
    /\ \E a \in StructuredArguments : args' = a
    /\ entry' = "generate_structured_communication_assessment"
    /\ IF api_keys = <<>>
       THEN /\ result' = get_fallback_structured_communication(args'.skills)
            /\ pc' = "done"
            /\ path' = "no_credentials"
            /\ skill' = "none"
       ELSE /\ result' = NoResult
            /\ pc' = "structured_skill"
            /\ path' = "structured"
            /\ skill' = "reading"
    /\ all_questions' = <<>>
    /\ log' = <<>>
    /\ last_op' = "generate"
    /\ UNCHANGED <<api_keys, current_key_index, topic_configs, existing_counts,
                   missing_configs, key_attempt, retry, current_api_key, batch_i,
                   inflight, rotVars, used_reading_templates,
                   used_listening_templates, used_grammar_templates, trace>>
    /\ UNCHANGED storeVars
    /\ UNCHANGED threadVars
    /\ UNCHANGED backendVars

\* the entry point moves past the batch of the current skill
StructuredAdvance(questions) ==
    /\ all_questions' = questions
    /\ skill' = after_skill(skill)
    /\ IF after_skill(skill) = "none"
       THEN /\ result' = structured_result(questions)
            /\ pc' = "done"
       ELSE /\ result' = NoResult
            /\ pc' = "structured_skill"

\* a skill that is not selected, has no configuration or asks for nothing:
\* no request is made and nothing is added
SkipSkill ==
    /\ pc = "structured_skill"
    /\ ~batch_requested(skill, args)
    /\ StructuredAdvance(all_questions)
    /\ UNCHANGED <<api_keys, current_key_index, topic_configs, existing_counts,
                   missing_configs, key_attempt, retry, current_api_key, batch_i,
                   log, inflight, rotVars, last_op, path, entry, args,
                   used_reading_templates, used_listening_templates,
                   used_grammar_templates, trace>>
    /\ UNCHANGED storeVars
    /\ UNCHANGED threadVars
    /\ UNCHANGED backendVars

\* requests.post of a batch generator (lines 462, 730, 1081)
SkillPost ==
    /\ pc = "structured_skill"
    /\ batch_requested(skill, args)
    /\ current_api_key' = get_current_api_key(api_keys, current_key_index)
    /\ log' = Append(log, Event("post", current_api_key', <<skill>>, 0, "", 0, 0))
    /\ inflight' = inflight + 1
    /\ pc' = "structured_wait"
    /\ UNCHANGED <<api_keys, current_key_index, topic_configs, existing_counts,
                   missing_configs, key_attempt, retry, batch_i, all_questions,
                   result, rotVars, last_op, path>>
    /\ UNCHANGED commVars
    /\ UNCHANGED storeVars
    /\ UNCHANGED threadVars
    /\ UNCHANGED backendVars

\* the response to a batch request, the return of the batch generator and
\* questions.extend(...) of the entry point
SkillAnswer ==
    /\ pc = "structured_wait"
    /\ \E r \in SkillResponses(skill, skill_total(skill, args)) :
        /\ log' = Append(log, Event("response", "", <<skill>>, r.status, r.kind,
                                     r.n, 0))
        /\ StructuredAdvance(all_questions \o
               batch_questions(skill, args, r, Len(EventsOf(log, "post"))))
    /\ inflight' = inflight - 1
    /\ UNCHANGED <<api_keys, current_key_index, topic_configs, existing_counts,
                   missing_configs, key_attempt, retry, current_api_key, batch_i,
                   rotVars, last_op, path, entry, args, used_reading_templates,
                   used_listening_templates, used_grammar_templates, trace>>
    /\ UNCHANGED storeVars
    /\ UNCHANGED threadVars
    /\ UNCHANGED backendVars

\* the caller takes the result; the locals of the call are gone
ReturnStructured ==
    /\ pc = "done"
    /\ entry = "generate_structured_communication_assessment"
    /\ pc' = "idle"
    /\ entry' = "none"
    /\ args' = <<>>
    /\ skill' = "none"
    /\ all_questions' = <<>>
    /\ current_api_key' = "None"
    /\ result' = NoResult
    /\ log' = <<>>
    /\ path' = "none"
    /\ UNCHANGED <<api_keys, current_key_index, topic_configs, existing_counts,
                   missing_configs, key_attempt, retry, batch_i, inflight,
                   rotVars, last_op, used_reading_templates,
                   used_listening_templates, used_grammar_templates, trace>>
    /\ UNCHANGED storeVars
    /\ UNCHANGED threadVars
    /\ UNCHANGED backendVars

NextStructured ==
    \/ StartStructured
    \/ SkipSkill
    \/ SkillPost
    \/ SkillAnswer
    \/ ReturnStructured

SpecStructured == Init /\ [][NextStructured]_vars

----------------------------------------------------------------------------
(* The small-batch generators and their template fallbacks *)

incremental_batch_max == 10  \* batch_size = min(10, target_total - existing_count)
small_reading_max == 3       \* min(max_questions, 3)
small_listening_max == 3     \* min(max_questions, 3)
small_grammar_max == 5       \* min(max_questions, 5)
small_reading_pool == 10     \* len(reading_templates)
small_listening_pool == 12   \* len(listening_templates)
small_grammar_pool == 8      \* len(grammar_templates)
variation_forms == 5         \* len(variations) of a reading / listening variation
grammar_variation_forms == 3 \* len(var_list), len(prefixes) of a grammar variation
small_batch_delay == 2       \* time.sleep(2) after a non-empty batch

Min(a, b) == IF a <= b THEN a ELSE b

small_max(sk) ==
    CASE sk = "reading" -> small_reading_max
      [] sk = "listening" -> small_listening_max
      [] sk = "grammar" -> small_grammar_max

small_pool_size(sk) ==
    CASE sk = "reading" -> small_reading_pool
      [] sk = "listening" -> small_listening_pool
      [] sk = "grammar" -> small_grammar_pool

\* the indices of the pool of a skill
PoolIndices(sk) == 0..(small_pool_size(sk) - 1)

\* reading_templates[i], listening_templates[i], grammar_templates[i]['question']
small_template(sk, idx) == template_text(<<"small", sk>>, idx)

\* what the fallback compares: passage[:50] for reading, the whole audio_text
\* or question for listening and grammar (lines 1418, 1449, 1608, 1771)
text_key(sk, text) == IF sk = "reading" THEN text.head ELSE text

\* existing_passages / existing_sentences / existing_question_texts as built
\* from existing_questions (lines 1413-1418, 1604-1608, 1767-1771)
existing_keys(sk, existing) ==
    {text_key(sk, existing[i].text) :
        i \in {j \in 1..Len(existing) : existing[j].skill = sk}}

\* _create_reading_variation, _create_listening_variation: the base text put
\* into the form number (variation_number - 1) % 5 (lines 1921-1954)
wrapped_variation(sk, base, variation_number) ==
    [head |-> <<"variation", sk, (variation_number - 1) % variation_forms>>,
     tail |-> base]

\* _create_grammar_variation (lines 1956-2005): the base question contains
\* one of the three keys of question_variations for the templates 0, 1, 2, and
\* the replacement always looks for the first key, which only template 0
\* contains; the other templates get a prefix
grammar_variation(base_idx, variation_number) ==
    CASE base_idx = 0 ->
            [head |-> <<"reworded", (variation_number - 1) % grammar_variation_forms>>,
             tail |-> small_template("grammar", base_idx)]
      [] base_idx \in {1, 2} -> small_template("grammar", base_idx)
      [] OTHER ->
            [head |-> <<"prefix", (variation_number - 1) % grammar_variation_forms>>,
             tail |-> small_template("grammar", base_idx)]

variation_text(sk, base_idx, variation_number) ==
    IF sk = "grammar" THEN grammar_variation(base_idx, variation_number)
    ELSE wrapped_variation(sk, small_template(sk, base_idx), variation_number)

\* one selection step of a fallback, as kept in trace
Visit(sk, pass, idx, used, used_after, keys, emitted) ==
    [skill |-> sk, pass |-> pass, idx |-> idx, used |-> used,
     used_after |-> used_after, keys |-> keys, emitted |-> emitted]

\* mutant: the usage set is not consulted
template_free_unrecorded(idx, key, used, keys) == key \notin keys

\* "if passage_key not in existing_passages and template_index not in
\* self.used_reading_templates" (lines 1452, 1483, 1634, 1866)
template_free(idx, key, used, keys) == key \notin keys /\ idx \notin used

\* one "while generated_count < questions_to_generate and template_index <
\* limit" loop over the pool (lines 1447-1470, 1478-1499, 1630-1653, 1861-1886)
RECURSIVE template_pass(_, _, _, _, _)
template_pass(sk, st, want, limit, pass) ==
    IF ~(Len(st.questions) < want /\ st.index < limit)
    THEN st
    ELSE LET actual == st.index % small_pool_size(sk)
             text == small_template(sk, actual)
             key == text_key(sk, text)
             emit == template_free(actual, key, st.used, st.keys)
             used_after == IF emit THEN st.used \cup {actual} ELSE st.used
         IN  template_pass(sk,
                [questions |-> IF emit
                               THEN Append(st.questions,
                                       comm_question(sk, "template", "mixed",
                                                     "medium", text))
                               ELSE st.questions,
                 used |-> used_after,
                 keys |-> IF emit THEN st.keys \cup {key} ELSE st.keys,
                 visits |-> Append(st.visits,
                               Visit(sk, pass, actual, st.used, used_after,
                                     st.keys, emit)),
                 index |-> st.index + 1],
                want, limit, pass)

\* "if generated_count < questions_to_generate and len(self.used_reading_
\* templates) >= len(reading_templates)": only the reading fallback has it
\* (lines 1473-1499)
second_pass_taken(sk, st, want) ==
    /\ sk = "reading"
    /\ Len(st.questions) < want
    /\ Cardinality(st.used) >= small_pool_size(sk)

\* the FINAL FALLBACK loop (lines 1502-1525, 1656-1680, 1889-1914)
RECURSIVE variation_loop(_, _, _, _)
variation_loop(sk, st, remaining_needed, i) ==
    IF i >= remaining_needed
    THEN st
    ELSE LET base == i % small_pool_size(sk)
         IN  variation_loop(sk,
                [st EXCEPT
                   !.questions = Append(@,
                       comm_question(sk, "variation", "mixed", "medium",
                                     variation_text(sk, base, i + 1))),
                   !.visits = Append(@, Visit(sk, 3, base, st.used, st.used,
                                              st.keys, TRUE))],
                remaining_needed, i + 1)

\* mutant: the template stage stops after its passes over the pool
small_fallback_passes_only(sk, want, used, existing) ==
    LET start == [questions |-> <<>>, used |-> used,
                  keys |-> existing_keys(sk, existing), visits |-> <<>>,
                  index |-> 0]
        first == template_pass(sk, start, want, small_pool_size(sk), 1)
    IN  IF second_pass_taken(sk, first, want)
        THEN template_pass(sk, [first EXCEPT !.used = {}], want,
                           2 * small_pool_size(sk), 2)
        ELSE first

\* the template stage of a small-batch generator (lines 1409-1530,
\* 1600-1685, 1763-1919): the questions, the usage set it leaves and its
\* selection steps
small_fallback(sk, want, used, existing) ==
    LET start == [questions |-> <<>>, used |-> used,
                  keys |-> existing_keys(sk, existing), visits |-> <<>>,
                  index |-> 0]
        first == template_pass(sk, start, want, small_pool_size(sk), 1)
        second == IF second_pass_taken(sk, first, want)
                  THEN template_pass(sk, [first EXCEPT !.used = {}], want,
                                     2 * small_pool_size(sk), 2)
                  ELSE first
    IN  variation_loop(sk, second, want - Len(second.questions), 0)

\* the questions built from a parsed payload of n items:
\* passages[:questions_to_generate] (lines 1389-1404, 1579-1595, 1741-1758)
small_ai_questions(sk, req, n, want) ==
    [j \in 1..Min(n, want) |->
        comm_question(sk, "ai", "", "medium", ai_text(req, j))]

----------------------------------------------------------------------------
(* generate_communication_questions_incremental *)

\* a question the backend returns for the application
persisted(sk, text) == comm_question(sk, "persisted", "", "medium", text)

\* what the backend holds for the application: nothing (or no application id,
\* or no answer), a reading passage served from the templates earlier, or a
\* reading passage that starts like template 1 with a listening sentence and a
\* grammar question served from the templates
ExistingQuestions ==
    {<<>>,
     <<persisted("reading", small_template("reading", 0))>>,
     <<persisted("reading", [head |-> small_template("reading", 1).head,
                              tail |-> "edited"]),
       persisted("listening", small_template("listening", 0)),
       persisted("grammar", small_template("grammar", 1))>>}

IncrementalSkills ==
    {{"reading"}, {"listening"}, {"grammar"}, {"reading", "grammar"},
     {"reading", "listening", "grammar"}}

IncrementalArguments ==
    [skills : IncrementalSkills,
     reading_config : {[easy |-> 4], [easy |-> 1]},
     listening_config : {[sentences |-> [easy |-> 4]]},
     grammar_config : {[topics |-> <<"tenses">>,
                        topicQuestions |-> ("tenses" :> [easy |-> 6])]},
     existing : ExistingQuestions]

\* "for topic_config in topic_questions.values(): target_total += ..."
RECURSIVE topic_questions_total(_, _)
topic_questions_total(topic_questions, topics) ==
    IF topics = {} THEN 0
    ELSE LET t == CHOOSE x \in topics : TRUE
         IN  counts_total(topic_questions[t])
             + topic_questions_total(topic_questions, topics \ {t})

\* target_total (lines 167-176)
target_total(a) ==
    (IF "reading" \in a.skills THEN counts_total(a.reading_config) ELSE 0)
    + (IF "listening" \in a.skills THEN counts_total(counts_of("listening", a)) ELSE 0)
    + (IF "grammar" \in a.skills
       THEN LET tq == dict_get(a.grammar_config, "topicQuestions", <<>>)
            IN  topic_questions_total(tq, DOMAIN tq)
       ELSE 0)

\* batch_size (line 196)
incremental_batch_size(a) ==
    Min(incremental_batch_max, target_total(a) - Len(a.existing))

\* mutant: a skill is served only when a whole small batch of it still fits
small_batch_needed_whole(sk, a, questions) ==
    sk \in a.skills /\ Len(questions) + small_max(sk) <= incremental_batch_size(a)

\* "if '<skill>' in skills and len(all_questions) < batch_size" (lines 212,
\* 220, 229)
small_batch_needed(sk, a, questions) ==
    sk \in a.skills /\ Len(questions) < incremental_batch_size(a)

\* mutant: a small-batch generator ignores what is left of the batch
questions_to_generate_full(sk, a, questions) == small_max(sk)

\* questions_to_generate of the small-batch generator called with what is
\* left of the batch (lines 213, 221-222, 230-231, 1344, 1534, 1689)
questions_to_generate(sk, a, questions) ==
    Min(incremental_batch_size(a) - Len(questions), small_max(sk))

used_templates(sk) ==
    CASE sk = "reading" -> used_reading_templates
      [] sk = "listening" -> used_listening_templates
      [] sk = "grammar" -> used_grammar_templates

\* mutant: the progress counts the questions of this call only
incremental_result_call_only(a, questions) ==
    LET new_total == Len(questions)
    IN  Result(TRUE, questions, "groq_incremental", "communication_incremental")
        @@ [progress |->
               [current |-> new_total, target |-> target_total(a),
                remaining |-> Max(0, target_total(a) - new_total),
                is_complete |-> new_total >= target_total(a)]]

\* the result of the entry point (lines 234-261)
incremental_result(a, questions) ==
    LET new_total == Len(a.existing) + Len(questions)
    IN  Result(TRUE, questions, "groq_incremental", "communication_incremental")
        @@ [progress |->
               [current |-> new_total, target |-> target_total(a),
                remaining |-> Max(0, target_total(a) - new_total),
                is_complete |-> new_total >= target_total(a)]]

InitIncremental ==
    /\ api_keys \in {<<>>, SubSeq(KeyNames, 1, 1)}
    /\ current_key_index = 0
    /\ pc = "idle"
    /\ topic_configs = <<>>
    /\ existing_counts = <<>>
    /\ missing_configs = <<>>
    /\ IdleLocals
    /\ NoThreads
    /\ NoApplication

\* the calls explored on one instance: a run of calls that all ask for the
\* same single skill, or one call for two skills on a fresh instance
explored_call(a) ==
    /\ \A k \in 1..Len(Skills) :
            Skills[k] \notin a.skills => used_templates(Skills[k]) = {}
    /\ Cardinality(a.skills) > 1 =>
            \A k \in 1..Len(Skills) : used_templates(Skills[k]) = {}

\* the entry point up to the first skill (lines 165-210)
StartIncremental ==
    /\ pc = "idle"
    /\ \E a \in IncrementalArguments :
        /\ explored_call(a)
        /\ args' = a
    /\ entry' = "generate_communication_questions_incremental"
    /\ pc' = "incremental_skill"
    /\ path' = "incremental"
    /\ skill' = "reading"
    /\ all_questions' = <<>>
    /\ result' = NoResult
    /\ log' = <<>>
    /\ trace' = <<>>
    /\ last_op' = "generate"
    /\ UNCHANGED <<api_keys, current_key_index, topic_configs, existing_counts,
                   missing_configs, key_attempt, retry, current_api_key, batch_i,
                   inflight, rotVars, used_reading_templates,
                   used_listening_templates, used_grammar_templates>>
    /\ UNCHANGED storeVars
    /\ UNCHANGED threadVars
    /\ UNCHANGED backendVars

\* all_questions.extend(...), the delay after a non-empty reading or
\* listening batch, and the move to the next skill or to the return
IncrementalAdvance(events, batch) ==
    LET questions == all_questions \o batch
    IN  /\ all_questions' = questions
        /\ log' = IF batch # <<>> /\ skill # "grammar"
                  THEN Append(events, SleepEvent(small_batch_delay))
                  ELSE events
        /\ skill' = after_skill(skill)
        /\ IF after_skill(skill) = "none"
           THEN /\ result' = incremental_result(args, questions)
                /\ pc' = "done"
           ELSE /\ result' = NoResult
                /\ pc' = "incremental_skill"

\* mutant: the three categories share one usage set
IncrementalFallback_shared_set(events) ==
    LET fb == small_fallback(skill,
                  questions_to_generate(skill, args, all_questions),
                  used_templates(skill), args.existing \o all_questions)
    IN  /\ used_reading_templates' = fb.used
        /\ used_listening_templates' = fb.used
        /\ used_grammar_templates' = fb.used
        /\ trace' = trace \o fb.visits
        /\ IncrementalAdvance(events, fb.questions)

\* the template stage of the current skill runs and the entry point moves on
IncrementalFallback(events) ==
    LET fb == small_fallback(skill,
                  questions_to_generate(skill, args, all_questions),
                  used_templates(skill), args.existing \o all_questions)
    IN  /\ used_reading_templates' =
              IF skill = "reading" THEN fb.used ELSE used_reading_templates
        /\ used_listening_templates' =
              IF skill = "listening" THEN fb.used ELSE used_listening_templates
        /\ used_grammar_templates' =
              IF skill = "grammar" THEN fb.used ELSE used_grammar_templates
        /\ trace' = trace \o fb.visits
        /\ IncrementalAdvance(events, fb.questions)

\* a skill that is not selected, or the batch is already full
SmallSkip ==
    /\ pc = "incremental_skill"
    /\ ~small_batch_needed(skill, args, all_questions)
    /\ IncrementalAdvance(log, <<>>)
    /\ UNCHANGED <<api_keys, current_key_index, topic_configs, existing_counts,
                   missing_configs, key_attempt, retry, current_api_key, batch_i,
                   inflight, rotVars, last_op, path, entry, args,
                   used_reading_templates, used_listening_templates,
                   used_grammar_templates, trace>>
    /\ UNCHANGED storeVars
    /\ UNCHANGED threadVars
    /\ UNCHANGED backendVars

\* a small-batch generator without credentials: the template stage at once
SmallTemplates ==
    /\ pc = "incremental_skill"
    /\ small_batch_needed(skill, args, all_questions)
    /\ api_keys = <<>>
    /\ IncrementalFallback(log)
    /\ UNCHANGED <<api_keys, current_key_index, topic_configs, existing_counts,
                   missing_configs, key_attempt, retry, current_api_key, batch_i,
                   inflight, rotVars, last_op, path, entry, args>>
    /\ UNCHANGED storeVars
    /\ UNCHANGED threadVars
    /\ UNCHANGED backendVars

\* requests.post of a small-batch generator (lines 1366, 1556, 1718)
SmallPost ==
    /\ pc = "incremental_skill"
    /\ small_batch_needed(skill, args, all_questions)
    /\ api_keys # <<>>
    /\ current_api_key' = get_current_api_key(api_keys, current_key_index)
    /\ log' = Append(log, Event("post", current_api_key', <<skill>>, 0, "", 0, 0))
    /\ inflight' = inflight + 1
    /\ pc' = "incremental_wait"
    /\ UNCHANGED <<api_keys, current_key_index, topic_configs, existing_counts,
                   missing_configs, key_attempt, retry, batch_i, all_questions,
                   result, rotVars, last_op, path>>
    /\ UNCHANGED commVars
    /\ UNCHANGED storeVars
    /\ UNCHANGED threadVars
    /\ UNCHANGED backendVars

\* the response to a small-batch request: the AI questions of a parsed
\* status 200 payload, else the template stage
SmallAnswer ==
    /\ pc = "incremental_wait"
    /\ \E r \in BatchResponses(questions_to_generate(skill, args, all_questions)) :
        LET answered == Append(log, Event("response", "", <<skill>>, r.status,
                                          r.kind, r.n, 0))
        IN  IF r.status = 200 /\ r.kind = "questions"
            THEN /\ IncrementalAdvance(answered,
                        small_ai_questions(skill, Len(EventsOf(log, "post")), r.n,
                            questions_to_generate(skill, args, all_questions)))
                 /\ UNCHANGED <<used_reading_templates, used_listening_templates,
                                used_grammar_templates, trace>>
            ELSE IncrementalFallback(answered)
    /\ inflight' = inflight - 1
    /\ UNCHANGED <<api_keys, current_key_index, topic_configs, existing_counts,
                   missing_configs, key_attempt, retry, current_api_key, batch_i,
                   rotVars, last_op, path, entry, args>>
    /\ UNCHANGED storeVars
    /\ UNCHANGED threadVars
    /\ UNCHANGED backendVars

\* the caller takes the result; the locals of the call are gone, the usage
\* sets stay
ReturnIncremental ==
    /\ pc = "done"
    /\ entry = "generate_communication_questions_incremental"
    /\ pc' = "idle"
    /\ entry' = "none"
    /\ args' = <<>>
    /\ skill' = "none"
    /\ all_questions' = <<>>
    /\ current_api_key' = "None"
    /\ result' = NoResult
    /\ log' = <<>>
    /\ trace' = <<>>
    /\ path' = "none"
    /\ UNCHANGED <<api_keys, current_key_index, topic_configs, existing_counts,
                   missing_configs, key_attempt, retry, batch_i, inflight,
                   rotVars, last_op, used_reading_templates,
                   used_listening_templates, used_grammar_templates>>
    /\ UNCHANGED storeVars
    /\ UNCHANGED threadVars
    /\ UNCHANGED backendVars

NextIncremental ==
    \/ StartIncremental
    \/ SmallSkip
    \/ SmallTemplates
    \/ SmallPost
    \/ SmallAnswer
    \/ ReturnIncremental

SpecIncremental == InitIncremental /\ [][NextIncremental]_vars

----------------------------------------------------------------------------
(* Claims about the planner and the fallback composer *)

Range(s) == {s[i] : i \in 1..Len(s)}


\* the entries of topic_configs that have something missing, in input order
ExpectedMissing(configs, counts) ==
    LET want(tc, d) ==
            LET ex == IF tc.topic \in DOMAIN counts
                      THEN CountOf(counts[tc.topic], d) ELSE 0
                diff == CountOf(tc, d) - ex
            IN  IF diff > 0 THEN diff ELSE 0
        all == [i \in 1..Len(configs) |->
                  [topic |-> configs[i].topic,
                   easy |-> want(configs[i], "easy"),
                   medium |-> want(configs[i], "medium"),
                   hard |-> want(configs[i], "hard")]]
        kept == {i \in 1..Len(configs) :
                    all[i].easy + all[i].medium + all[i].hard > 0}
        RECURSIVE pick(_)
        pick(i) == IF i > Len(configs) THEN <<>>
                   ELSE IF i \in kept THEN <<all[i]>> \o pick(i + 1)
                   ELSE pick(i + 1)
    IN  pick(1)

\* C1: every entry returned by _calculate_missing_questions has, per
\* difficulty, max(0, requested - existing) (existing 0 for a topic absent from
\* the map); its total is the sum of the three; topics with nothing missing
\* are absent; the remaining topics keep their input order.
C1_MissingWork ==
    pc = "returned" =>
        LET want == ExpectedMissing(topic_configs, existing_counts)
        IN  /\ Len(missing_configs) = Len(want)
            /\ \A i \in 1..Len(want) :
                  /\ missing_configs[i].topic = want[i].topic
                  /\ missing_configs[i].easy = want[i].easy
                  /\ missing_configs[i].medium = want[i].medium
                  /\ missing_configs[i].hard = want[i].hard
                  /\ missing_configs[i].total =
                        want[i].easy + want[i].medium + want[i].hard
                  /\ missing_configs[i].total > 0

\* a call of two topics where one topic is dropped and the other, floored at
\* zero in one difficulty, is kept
C1_Witness ==
    /\ pc = "returned"
    /\ Len(topic_configs) = 2
    /\ Len(missing_configs) = 1
    /\ topic_configs[1].total > 0
    /\ missing_configs[1].topic = topic_configs[2].topic
    /\ topic_configs[2].topic \in DOMAIN existing_counts
    /\ topic_configs[2].easy < existing_counts[topic_configs[2].topic].easy
    /\ missing_configs[1].easy = 0
    /\ missing_configs[1].medium > 0

\* the questions of a result tagged with a topic and a difficulty
Tagged(questions, topic, difficulty) ==
    {k \in 1..Len(questions) :
        questions[k].topic = topic /\ questions[k].difficulty = difficulty}

Requested(configs, topic, difficulty) ==
    SumSeq([i \in 1..Len(configs) |->
              IF configs[i].topic = topic THEN CountOf(configs[i], difficulty) ELSE 0])

\* C2: the aptitude template fallback emits, for every topic/difficulty pair,
\* exactly the requested number of items tagged with that topic and that
\* difficulty, so that len(questions) = total_questions = the sum of all
\* requested counts, also when a count exceeds the static pool.
C2_FallbackExactCount ==
    pc = "returned" =>
        /\ \A t \in FallbackTopics : \A d \in Range(Difficulties) :
              Cardinality(Tagged(result.questions, t, d)) =
                  Requested(topic_configs, t, d)
        /\ Len(result.questions) = total_of(topic_configs)
        /\ result.total_questions = total_of(topic_configs)
        /\ \A k \in 1..Len(result.questions) : result.questions[k].src = "template"

\* a request asks a pool of one template for more than one item
C2_Witness ==
    /\ pc = "returned"
    /\ \E i \in 1..Len(topic_configs) :
          /\ topic_configs[i].topic = "verbal_reasoning"
          /\ topic_configs[i].medium > pool_size("verbal_reasoning", "medium")
    /\ Len(result.questions) > 0

----------------------------------------------------------------------------
(* Claims about the generator instance *)

Posts == EventsOf(log, "post")

Answers == EventsOf(log, "response")

Sleeps == [i \in 1..Len(EventsOf(log, "sleep")) |-> EventsOf(log, "sleep")[i].secs]

MissingTopics == [i \in 1..Len(missing_configs) |-> missing_configs[i].topic]

\* the running call had credentials and every answer of the provider was a 429
AlwaysRateLimited ==
    /\ api_keys # <<>>
    /\ Answers # <<>>
    /\ \A k \in 1..Len(Answers) : Answers[k].status = 429

\* C3: with at least one credential, if the provider answers 429 to every
\* request on every credential, generate_aptitude_questions_by_topic returns
\* a template result (success, generated_by = 'fallback_templates'), for
\* every missing total, those above the batching threshold included.
C3_RateLimitedGivesTemplates ==
    (pc = "done" /\ AlwaysRateLimited) =>
        /\ result.success
        /\ result.generated_by = "fallback_templates"

RECURSIVE Repeat(_, _)
Repeat(s, n) == IF n = 0 THEN <<>> ELSE s \o Repeat(s, n - 1)

\* C4: in the single-call path, a credential that keeps answering 429 is
\* retried 2 times, after waits of 5 and of 10 seconds, before the next
\* credential is selected: a call rate-limited throughout has made three
\* requests per credential and slept 5 s and 10 s on each.
C4_TwoRetriesPerCredential ==
    (pc = "done" /\ path = "single" /\ AlwaysRateLimited) =>
        /\ Len(Posts) = 3 * Len(api_keys)
        /\ Sleeps = Repeat(<<5, 10>>, Len(api_keys))

\* C5: rotate_api_key is circular and deterministic: with N >= 2 credentials
\* every call returns true and moves the index to (index + 1) mod N, so N
\* consecutive calls restore the index; with 0 or 1 credentials every call
\* returns false and leaves the index unchanged.
C5_RotationCircular ==
    last_op = "rotate" =>
        LET N == Len(api_keys)
        IN  IF N >= 2
            THEN /\ rotate_ret = TRUE
                 /\ current_key_index = (rot_start + rot_calls) % N
                 /\ rot_calls = N => current_key_index = rot_start
            ELSE /\ rotate_ret = FALSE
                 /\ current_key_index = rot_start

\* three consecutive rotations of three credentials, started away from index
\* 0, have come back to where they started
C5_Witness ==
    /\ last_op = "rotate"
    /\ Len(api_keys) = 3
    /\ rot_calls = 3
    /\ rot_start = 2
    /\ current_key_index = 2

IndexInRange ==
    api_keys # <<>> => (0 <= current_key_index /\ current_key_index < Len(api_keys))

CurrentKeyNoneIffEmpty ==
    /\ IndexInRange
    /\ (get_current_api_key(api_keys, current_key_index) = "None") <=> (api_keys = <<>>)
    /\ api_keys # <<>> =>
          get_current_api_key(api_keys, current_key_index) \in Range(api_keys)

\* C6: with a non-empty credential set 0 <= current_key_index < number of
\* credentials in every reachable state; no operation removes, adds or
\* reorders a credential; the index moves only by a rotation step and is not
\* reset when a call starts or returns; get_current_api_key returns none
\* exactly when the credential set is empty.
C6_CredentialSetInvariant ==
    /\ []CurrentKeyNoneIffEmpty
    /\ [][/\ api_keys' = api_keys
          /\ current_key_index' # current_key_index =>
                /\ Len(api_keys) >= 2
                /\ current_key_index' = (current_key_index + 1) % Len(api_keys)
          /\ (pc = "done" \/ (pc = "idle" /\ pc' # "idle")) =>
                current_key_index' = current_key_index]_vars

\* a generation call starts on the last credential, where earlier operations
\* on the instance left the index
C6_Witness ==
    /\ pc = "single_wait"
    /\ Len(api_keys) = 3
    /\ current_key_index = 2
    /\ key_attempt = 0
    /\ current_api_key = api_keys[3]

\* C7: _generate_aptitude_in_batches cuts the missing-work list into
\* consecutive sub-batches of at most 2 topics: the topics requested so far
\* are a prefix of the list, the whole list once the call is done; the
\* sub-batches are requested one after another, never two in flight.
C7_BatchPartition ==
    path = "batched" =>
        LET flat == Flatten([k \in 1..Len(Posts) |-> Posts[k].topics])
        IN  /\ \A k \in 1..Len(Posts) :
                  Len(Posts[k].topics) >= 1 /\ Len(Posts[k].topics) <= 2
            /\ Len(flat) <= Len(MissingTopics)
            /\ flat = SubSeq(MissingTopics, 1, Len(flat))
            /\ pc = "done" => flat = MissingTopics
            /\ inflight <= 1
            /\ inflight = 1 <=> pc = "batch_wait"
            /\ \A k \in 1..(Len(log) - 1) :
                  log[k].ev = "post" => log[k + 1].ev = "response"
            /\ Len(Posts) - Len(Answers) = inflight

\* a batched call over three missing topics is done after two sub-batches
C7_Witness ==
    /\ pc = "done"
    /\ path = "batched"
    /\ Len(missing_configs) = 3
    /\ Len(Posts) = 2
    /\ Len(Posts[1].topics) = 2
    /\ Len(Posts[2].topics) = 1

FortyFiveAcrossThree ==
    /\ pc = "done"
    /\ path = "batched"
    /\ Len(missing_configs) = 3
    /\ total_of(missing_configs) = 45

\* C8 as stated: 45 missing questions across 3 topics give exactly 3
\* sub-batch requests of at most 2 topics each, with the 3-second delay
\* between consecutive sub-batches.
C8_ThreeSubBatches ==
    FortyFiveAcrossThree =>
        /\ Len(Posts) = 3
        /\ \A k \in 1..Len(Posts) : Len(Posts[k].topics) <= 2
        /\ Sleeps = <<3, 3>>

\* C8 amended: 45 missing questions across 3 topics give exactly 2 sub-batch
\* requests, the first for the first two topics and the second for the third,
\* with one 3-second delay, taken between the two.
C8_TwoSubBatches ==
    FortyFiveAcrossThree =>
        /\ Len(Posts) = 2
        /\ Posts[1].topics = SubSeq(MissingTopics, 1, 2)
        /\ Posts[2].topics = SubSeq(MissingTopics, 3, 3)
        /\ Sleeps = <<3>>
        /\ [k \in 1..Len(log) |-> log[k].ev] =
              <<"post", "response", "sleep", "post", "response">>

C8_Witness ==
    /\ FortyFiveAcrossThree
    /\ Len(Posts) = 2
    /\ result.success

\* the questions sub-batch k contributes: those of its payload, cut to the
\* total of its topics, when it was answered 200 with a questions object
Contribution(k) ==
    LET lo == 2 * (k - 1) + 1
        hi == IF 2 * k > Len(missing_configs) THEN Len(missing_configs) ELSE 2 * k
        batch_total == total_of(SubSeq(missing_configs, lo, hi))
        a == Answers[k]
        n == IF a.n > batch_total THEN batch_total ELSE a.n
    IN  IF a.status = 200 /\ a.kind = "questions"
        THEN [j \in 1..n |-> ai_question(k, j)]
        ELSE <<>>

\* C9: in the batched path a failed sub-batch contributes zero questions and
\* does not stop the later ones: every sub-batch is attempted, the questions
\* of the successful sub-batches are concatenated in sub-batch order, and
\* the result is a success whenever at least one question was produced.
C9_FailedBatchSkipped ==
    (pc = "done" /\ path = "batched") =>
        LET produced == Flatten([k \in 1..Len(Answers) |-> Contribution(k)])
        IN  /\ Len(Posts) = (Len(missing_configs) + 1) \div 2
            /\ Len(Answers) = Len(Posts)
            /\ produced # <<>> =>
                  /\ result.success
                  /\ result.questions = produced
                  /\ result.total_questions = Len(produced)
            /\ produced = <<>> => ~result.success

\* the first sub-batch was rate limited, the second one delivered
C9_Witness ==
    /\ pc = "done"
    /\ path = "batched"
    /\ Len(Answers) = 2
    /\ Answers[1].status = 429
    /\ Answers[2].status = 200
    /\ result.success
    /\ Len(result.questions) > 0
    /\ \A k \in 1..Len(result.questions) : result.questions[k].req = 2

\* C10: with credentials, the batched path is taken exactly when the summed
\* missing total is strictly greater than 30; a missing total from 1 to 30 is
\* sent as one request covering all missing topics, however many they are.
C10_BatchThreshold ==
    /\ path = "batched" <=>
          (api_keys # <<>> /\ pc # "idle" /\ total_of(missing_configs) > 30)
    /\ path = "single" <=>
          (api_keys # <<>> /\ pc # "idle" /\ total_of(missing_configs) > 0
              /\ total_of(missing_configs) <= 30)
    /\ pc \in {"batch_post", "batch_wait"} => path = "batched"
    /\ pc \in {"single_post", "single_wait"} => path = "single"
    /\ path = "single" =>
          \A k \in 1..Len(Posts) : Posts[k].topics = MissingTopics
    /\ path \in {"no_credentials", "none_needed"} => Posts = <<>>

\* exactly 30 missing questions over two topics went out as one request
C10_Witness ==
    /\ pc = "single_wait"
    /\ total_of(missing_configs) = 30
    /\ Len(missing_configs) = 2
    /\ Len(Posts) = 1
    /\ Len(Posts[1].topics) = 2

\* the last answer of the provider in the running call
LastAnswer == Answers[Len(Answers)]

\* an HTTP 200 whose content json.loads rejects, truncated or otherwise
ParseFailure(r) == r.status = 200 /\ r.kind \in {"truncated", "invalid"}

\* an answer whose status is neither 200 nor 429
OtherStatus(r) == r.kind # "timeout" /\ r.status # 200 /\ r.status # 429

\* the step of the single-call path that handles an answer satisfying P
SingleAnswerStep(P(_)) ==
    /\ pc = "single_wait"
    /\ Len(EventsOf(log', "response")) = Len(Answers) + 1
    /\ P(EventsOf(log', "response")[Len(Answers) + 1])

\* the step neither retries nor rotates: the call ends on it, no request or
\* wait follows the answer, and the credential index is left alone
NoRetryNoRotation ==
    /\ pc' = "done"
    /\ log'[Len(log')].ev = "response"
    /\ current_key_index' = current_key_index
    /\ key_attempt' = key_attempt
    /\ retry' = retry

\* C12: in the single-call path an HTTP 200 whose payload fails to parse as
\* JSON (truncated or otherwise invalid) gives a success = false result with
\* one error entry and an error tag of its own (truncated_response_error or
\* json_parse_error); no template question is served, and the answer causes
\* no retry and no credential rotation.
C12_ParseFailureIsError ==
    /\ []((pc = "done" /\ path = "single" /\ ParseFailure(LastAnswer)) =>
            /\ result.success = FALSE
            /\ Len(result.questions) = 1
            /\ result.questions[1].src = "error"
            /\ result.generated_by = "error"
            /\ result.type = (IF LastAnswer.kind = "truncated"
                              THEN "truncated_response_error"
                              ELSE "json_parse_error"))
    /\ [][SingleAnswerStep(ParseFailure) => NoRetryNoRotation]_vars

\* a parse failure that follows a rate-limited credential
C12_Witness ==
    /\ pc = "done"
    /\ path = "single"
    /\ Len(Answers) = 3
    /\ Answers[1].status = 429
    /\ LastAnswer.kind = "truncated"
    /\ result.type = "truncated_response_error"

\* C13: in the single-call path an answer whose status is neither 200 nor
\* 429 ends the call, without retry and without credential rotation, with the
\* template fallback result for the missing work, tagged fallback_templates.
C13_OtherStatusGivesTemplates ==
    /\ []((pc = "done" /\ path = "single" /\ OtherStatus(LastAnswer)) =>
            /\ result = get_fallback_aptitude_questions(missing_configs)
            /\ result.success
            /\ result.generated_by = "fallback_templates"
            /\ \A k \in 1..Len(result.questions) :
                    result.questions[k].src = "template")
    /\ [][SingleAnswerStep(OtherStatus) => NoRetryNoRotation]_vars

\* a status 500 on the second request to the first credential
C13_Witness ==
    /\ pc = "done"
    /\ path = "single"
    /\ Len(Answers) = 2
    /\ Answers[1].status = 429
    /\ LastAnswer.status = 500
    /\ result.generated_by = "fallback_templates"
    /\ Len(result.questions) = total_of(missing_configs)

----------------------------------------------------------------------------
(* Claims about the direct aptitude entry points *)

\* the running call ended by returning a result, not by raising
Returned == pc = "done" /\ "raised" \notin DOMAIN result

\* C11: a successful AI generation never returns more questions than were
\* requested: from a payload with more items the result is its first N items
\* in order, from one with fewer it is the items as they are. Stated for
\* generate_aptitude_questions_by_difficulty.
C11_NeverMoreThanRequested ==
    (/\ Returned
     /\ entry = "generate_aptitude_questions_by_difficulty"
     /\ result.success) =>
        /\ Len(result.questions) <= requested_total(entry, args)
        /\ result.questions =
              trimmed_questions(1, LastAnswer.n, requested_total(entry, args))

\* C14: whatever the input, the provider and the credential set, an entry
\* point ends by returning a result that carries success, questions,
\* total_questions and metadata with generated_by and type; it never raises.
C14_UniformResult ==
    pc = "done" =>
        {"success", "questions", "total_questions", "generated_by", "type"}
            \subseteq DOMAIN result

\* C15: in every returned result total_questions is the number of entries of
\* questions, and a success = false result carries exactly one entry, which
\* is the error entry with its message.
C15_TotalMatchesQuestions ==
    (Returned /\ {"success", "questions", "total_questions"} \subseteq DOMAIN result) =>
        /\ result.total_questions = Len(result.questions)
        /\ ~result.success =>
              /\ Len(result.questions) = 1
              /\ result.questions[1].src = "error"
              /\ result.questions[1].bank # ""

----------------------------------------------------------------------------
(* Claims about exceptions *)

\* the request of the single-call path ended in an exception: a transport
\* error, or a payload that is JSON but not an object
ExceptionInCall == LastAnswer.kind \in {"timeout", "not_object"}

\* C16: an unexpected exception inside generate_aptitude_questions_by_topic
\* after the credential check (a transport error, a status 200 payload that
\* is valid JSON but no object with a questions list) gives a template
\* fallback result.
C16_ExceptionGivesTemplates ==
    (pc = "done" /\ path = "single" /\ ExceptionInCall) =>
        /\ result.success
        /\ result.generated_by = "fallback_templates"

----------------------------------------------------------------------------
(* Claims about the structured communication assessment *)

\* every question of the returned result was composed from a template
ComposedFromTemplates ==
    /\ Returned
    /\ result.questions # <<>>
    /\ \A k \in 1..Len(result.questions) : result.questions[k].src = "template"

\* C17: a returned result whose questions were composed from templates is
\* tagged fallback_templates or error_fallback, never with an AI tag; so a
\* structured communication assessment whose provider requests all failed
\* and were served from templates is not tagged groq.
C17_TemplateResultsTagged ==
    ComposedFromTemplates =>
        result.generated_by \in {"fallback_templates", "error_fallback"}

\* the grammar batch request of the running call failed, so that its
\* questions come from _generate_grammar_from_templates
GrammarFromTemplates ==
    \E k \in 1..Len(log) :
        /\ log[k].ev = "response"
        /\ log[k].topics = <<"grammar">>
        /\ ~(log[k].status = 200 /\ log[k].kind = "questions")

\* the grammar questions of the result for a topic and a difficulty
GrammarEmitted(topic, difficulty) ==
    SelectSeq(result.questions,
              LAMBDA q : q.skill = "grammar" /\ q.topic = topic
                         /\ q.difficulty = difficulty)

\* C18: the template fallback emits the requested number of items for every
\* topic and difficulty, a topic absent from the template bank included, and
\* nothing for a count of 0. Stated for the grammar template fallback.
C18_UnknownTopicGetsFiller ==
    (pc = "done" /\ path = "structured" /\ GrammarFromTemplates) =>
        \A t \in 1..Len(grammar_topics(args)) : \A d \in 1..Len(Difficulties) :
            Len(GrammarEmitted(grammar_topics(args)[t], Difficulties[d])) =
                difficulty_count(grammar_topic_config(args, grammar_topics(args)[t]),
                                 Difficulties[d])

----------------------------------------------------------------------------
(* Claims about the small-batch template fallbacks *)

\* the selection steps of a skill in the running call
VisitsOf(sk) == SelectSeq(trace, LAMBDA v : v.skill = sk)

\* at some step of the first pass every pool index was in the usage set
\* while the requested count was not met
ExhaustedIn(sk) ==
    \E k \in 1..Len(trace) :
        /\ trace[k].skill = sk
        /\ trace[k].pass = 1
        /\ trace[k].used = PoolIndices(sk)

\* a second pass began on the cleared usage set
SecondPassIn(sk) ==
    \E k \in 1..Len(trace) :
        /\ trace[k].skill = sk
        /\ trace[k].pass = 2
        /\ trace[k].used = {}

\* the second pass went through the whole pool
SecondPassComplete(sk) ==
    \A i \in PoolIndices(sk) :
        \E k \in 1..Len(trace) :
            trace[k].skill = sk /\ trace[k].pass = 2 /\ trace[k].idx = i

VariationsIn(sk) ==
    \E k \in 1..Len(trace) : trace[k].skill = sk /\ trace[k].pass = 3

\* C19: in the small-batch template fallback of each skill, when every pool
\* index is in the usage set before the requested count is met, the usage set
\* is cleared and a second pass over the pool supplies the remaining items
\* from the unmodified templates; synthetic variations are produced only when
\* that second pass went through the pool without meeting the count.
C19_ExhaustedPoolSecondPass ==
    (pc = "done" /\ path = "incremental") =>
        \A s \in 1..Len(Skills) :
            ExhaustedIn(Skills[s]) =>
                /\ SecondPassIn(Skills[s])
                /\ VariationsIn(Skills[s]) => SecondPassComplete(Skills[s])

\* the texts of the questions of a skill that were passed in as existing
ExistingTexts(sk) ==
    {args.existing[i].text :
        i \in {j \in 1..Len(args.existing) : args.existing[j].skill = sk}}

\* a template step that emitted its template
Emitting(v) == v.pass \in {1, 2} /\ v.emitted

\* C20: outside the synthetic-variation stage a small-batch fallback emits a
\* template only if its index is not in the skill's usage set at that moment
\* and its text is neither the text of an existing question of that skill
\* nor of an item emitted earlier in the call; the index of an emitted
\* template is added to the usage set; and each pass visits the templates in
\* increasing index order.
C20_TemplateSelection ==
    path = "incremental" =>
        \A s \in 1..Len(Skills) :
            LET sk == Skills[s]
                visits == VisitsOf(sk)
            IN  /\ \A k \in 1..Len(visits) :
                       Emitting(visits[k]) =>
                          /\ visits[k].idx \notin visits[k].used
                          /\ visits[k].idx \in visits[k].used_after
                          /\ small_template(sk, visits[k].idx) \notin ExistingTexts(sk)
                          /\ \A j \in 1..(k - 1) :
                                 Emitting(visits[j]) =>
                                    visits[j].idx # visits[k].idx
                /\ \A k \in 1..(Len(visits) - 1) :
                       (visits[k].pass \in {1, 2}
                        /\ visits[k + 1].pass = visits[k].pass) =>
                          /\ visits[k + 1].idx > visits[k].idx
                          /\ visits[k + 1].used = visits[k].used_after
                /\ (visits # <<>> /\ pc = "done"
                    /\ visits[Len(visits)].pass \in {1, 2}) =>
                       used_templates(sk) = visits[Len(visits)].used_after

\* a reading fallback that skipped a template for its persisted text, took
\* the second pass and emitted a template in it
C20_Witness ==
    /\ pc = "done"
    /\ path = "incremental"
    /\ \E k \in 1..Len(trace) :
          /\ ~trace[k].emitted
          /\ trace[k].idx \notin trace[k].used
    /\ \E k \in 1..Len(trace) :
          /\ trace[k].pass = 2
          /\ trace[k].emitted
    /\ \E k \in 1..Len(trace) :
          /\ trace[k].pass = 1
          /\ ~trace[k].emitted
          /\ trace[k].idx \in trace[k].used

----------------------------------------------------------------------------
(* Claims about persisted questions and repeated runs *)

\* the call went to the template fallback after the store was queried
FallbackAfterQuery ==
    /\ pc = "done"
    /\ path = "single"
    /\ result.generated_by = "fallback_templates"

\* C21: the aptitude template fallback reached from
\* generate_aptitude_questions_by_topic after the store was queried never
\* emits a template whose normalized text equals a question persisted for
\* that topic, as _check_existing_questions collected it.
C21_FallbackSkipsPersisted ==
    FallbackAfterQuery =>
        \A k \in 1..Len(result.questions) :
            LET q == result.questions[k]
            IN  q.topic \in DOMAIN existing_questions_content =>
                    normalized(as_served(question_text(q))) \notin
                        Range(existing_questions_content[q.topic])

\* the requested count of a pair is more than its pool holds, so that the
\* composer has to repeat templates within one run
VariationRequired(configs, topic, difficulty) ==
    Requested(configs, topic, difficulty) >
        (IF topic \in KnownTopics THEN pool_size(topic, difficulty)
         ELSE 2 * generic_repeat)

\* C22: running the template fallback of a category twice on the same
\* generator instance with the same inputs never returns, across the two
\* runs, two items with identical text from the same pool, unless a synthetic
\* variation was required to meet the count.
C22_RepeatedRunsDistinct ==
    pc = "returned_again" =>
        \A j \in 1..Len(previous.questions) :
            \A k \in 1..Len(result.questions) :
                question_text(previous.questions[j]) =
                    question_text(result.questions[k]) =>
                    VariationRequired(topic_configs, result.questions[k].topic,
                                      result.questions[k].difficulty)

\* the items of a result tagged with a pair have pairwise distinct text
DistinctTexts(questions, topic, difficulty) ==
    \A j \in Tagged(questions, topic, difficulty) :
        \A k \in Tagged(questions, topic, difficulty) :
            j # k => question_text(questions[j]) # question_text(questions[k])

\* C23: with no credentials and an empty store, the request
\* {logical_reasoning: easy=3, medium=0, hard=0} returns exactly 3 items, all
\* of difficulty easy and topic logical_reasoning, taken from the
\* logical_reasoning pool, with pairwise distinct text; and whenever the
\* requested count of a known topic and difficulty does not exceed the size
\* of its pool, the items emitted for that pair in one call have pairwise
\* distinct text.
C23_DistinctWithinPool ==
    pc = "returned" =>
        /\ topic_configs \in FallbackScenarios =>
              /\ Len(result.questions) = 3
              /\ \A k \in 1..3 :
                    /\ result.questions[k].topic = "logical_reasoning"
                    /\ result.questions[k].difficulty = "easy"
                    /\ result.questions[k].bank = "logical_reasoning"
              /\ DistinctTexts(result.questions, "logical_reasoning", "easy")
        /\ \A t \in KnownTopics : \A d \in Range(Difficulties) :
              Requested(topic_configs, t, d) <= pool_size(t, d) =>
                  DistinctTexts(result.questions, t, d)

----------------------------------------------------------------------------
(* Claims about the size of a small batch and about provider failures in the *)
(* communication generators                                                  *)

\* the template stage of the current skill runs in this step
TemplateStageStep ==
    /\ pc \in {"incremental_skill", "incremental_wait"}
    /\ Len(trace') > Len(trace)

\* the questions a step appended to the batch
Appended == SubSeq(all_questions', Len(all_questions) + 1, Len(all_questions'))

\* C24: the small-batch template fallback of each skill returns exactly the
\* number of items asked of it (min(max_questions, 3) for reading and for
\* listening, min(max_questions, 5) for grammar), whatever the usage set and
\* whatever existing questions are passed in, adding synthetic variations
\* when unused templates run out.
C24_SmallFallbackExactCount ==
    [][TemplateStageStep =>
          /\ Len(Appended) = questions_to_generate(skill, args, all_questions)
          /\ Len(Appended) =
                Min(incremental_batch_size(args) - Len(all_questions),
                    IF skill = "grammar" THEN 5 ELSE 3)
          /\ \A k \in 1..Len(Appended) :
                /\ Appended[k].skill = skill
                /\ Appended[k].src \in {"template", "variation"}]_vars

\* a grammar batch of five made of the last unused templates and of variations
C24_Witness ==
    /\ pc = "done"
    /\ path = "incremental"
    /\ args.skills = {"grammar"}
    /\ VariationsIn("grammar")
    /\ \E k \in 1..Len(trace) : trace[k].pass = 1 /\ trace[k].emitted
    /\ Len(all_questions) = small_grammar_max

\* requests.post raised requests.Timeout: no status was received
TimedOut(r) == r.kind = "timeout"

\* C25: in the aptitude single-call path a provider request that exceeds its
\* timeout fails that one attempt only and uses up one retry / rotation
\* opportunity: the call goes on with the next retry or the next credential,
\* or with the template fallback once the credentials are exhausted, instead
\* of ending the whole call; and no request is left pending.
C25_TimeoutConsumesAttempt ==
    [][SingleAnswerStep(TimedOut) =>
          /\ inflight' = 0
          /\ \/ pc' = "single_post"
             \/ /\ pc' = "done"
                /\ ~retry_allowed(retry)
                /\ key_attempt + 1 >= Len(api_keys)
                /\ result'.generated_by = "fallback_templates"]_vars

----------------------------------------------------------------------------
(* Claims about the tags of generate_aptitude_questions_by_topic *)

\* a call with credentials returned questions of the provider
AISuccess ==
    /\ result.success
    /\ result.generated_by \notin {"fallback_templates", "none_needed"}

\* the requests whose payloads the questions of the result came from
RequestsUsed == {result.questions[k].req : k \in 1..Len(result.questions)}

\* C26: with credentials, generate_aptitude_questions_by_topic tags a
\* successful AI result groq_ai_single when it came from one request and
\* groq_ai_batched when it came from sub-batches, and it returns success =
\* true with zero questions tagged none_needed exactly when the missing total
\* is zero, in which case no provider request is issued.
C26_GeneratorKindTags ==
    (pc = "done" /\ api_keys # <<>> /\ last_op = "generate"
     /\ path \in {"single", "batched", "none_needed"}) =>
        /\ (AISuccess /\ path = "single") =>
              /\ result.generated_by = "groq_ai_single"
              /\ Cardinality(RequestsUsed) <= 1
        /\ (AISuccess /\ path = "batched") =>
              result.generated_by = "groq_ai_batched"
        /\ result.generated_by = "groq_ai_single" => path = "single"
        /\ result.generated_by = "groq_ai_batched" => path = "batched"
        /\ result.generated_by = "none_needed" <=>
              total_of(calculate_missing_questions(topic_configs,
                                                   existing_counts)) = 0
        /\ result.generated_by = "none_needed" =>
              /\ result.success
              /\ result.questions = <<>>
              /\ result.total_questions = 0
              /\ log = <<>>
              /\ inflight = 0

\* a batched call whose sub-batches were answered with questions
C26_Witness ==
    /\ pc = "done"
    /\ path = "batched"
    /\ Len(Posts) >= 2
    /\ Cardinality(RequestsUsed) >= 2
    /\ result.generated_by = "groq_ai_batched"

----------------------------------------------------------------------------
(* Claims about provider failures in the communication generators *)

\* the credentials the requests for the current skill were sent with
SkillKeysTried ==
    {log[k].key : k \in {i \in 1..Len(log) :
                            log[i].ev = "post" /\ log[i].topics = <<skill>>}}

\* the batch generator of the current skill receives an HTTP 429 and returns
RateLimitedSkillReturns ==
    /\ pc = "structured_wait"
    /\ log'[Len(log')].ev = "response"
    /\ log'[Len(log')].status = 429
    /\ skill' # skill

\* C27: for reading, listening and grammar an HTTP 429 is handled as for
\* aptitude: the request is retried after a wait, then the next credential is
\* selected, and templates are used only after all credentials were tried.
C27_CommRateLimitRetried ==
    [][RateLimitedSkillReturns =>
          /\ SkillKeysTried = Range(api_keys)
          /\ EventsOf(log', "sleep") # <<>>]_vars

\* the batch generator of the current skill receives an HTTP 200 whose
\* content is no JSON text or is not the array that was asked for
UnusablePayloadStep ==
    /\ pc = "structured_wait"
    /\ log'[Len(log')].ev = "response"
    /\ log'[Len(log')].status = 200
    /\ log'[Len(log')].kind # "questions"

\* C28: for reading, listening and grammar generation an HTTP 200 whose
\* payload cannot be parsed or has the wrong shape is handled like a
\* transport error: the category is served from templates, and no error
\* entry or exception reaches the caller.
C28_UnusablePayloadGivesTemplates ==
    [][UnusablePayloadStep =>
          /\ all_questions' = all_questions \o generate_from_templates(skill, args)
          /\ \A k \in 1..Len(all_questions') : all_questions'[k].src # "error"
          /\ "raised" \notin DOMAIN result']_vars

\* the questions of a result that belong to a skill
OfSkill(questions, sk) == {k \in 1..Len(questions) : questions[k].skill = sk}

\* C29: with an empty credential set every generation entry point issues no
\* provider request and goes straight to the template fallback: the result
\* holds template content with exactly the requested counts, for aptitude
\* and for reading, listening and grammar alike.
C29_NoCredentialsGivesTemplates ==
    (pc = "done" /\ api_keys = <<>>
     /\ entry = "generate_structured_communication_assessment") =>
        /\ log = <<>>
        /\ \A k \in 1..Len(result.questions) : result.questions[k].src = "template"
        /\ \A s \in 1..Len(Skills) :
              Cardinality(OfSkill(result.questions, Skills[s])) =
                  (IF batch_requested(Skills[s], args)
                   THEN skill_total(Skills[s], args) ELSE 0)

----------------------------------------------------------------------------
(* Claims about multiple-choice questions *)

\* C30: every multiple-choice question of a returned result (aptitude or
\* grammar; from the provider, from a template or an error entry) has exactly
\* 4 distinct option labels and a correct_answer that is one of them,
\* whatever the provider returned.
C30_FourOptionsAnswerListed ==
    (pc = "done" /\ entry = "generate_structured_communication_assessment") =>
        \A k \in OfSkill(result.questions, "grammar") :
            /\ Cardinality(result.questions[k].options) = 4
            /\ result.questions[k].correct_answer_listed

----------------------------------------------------------------------------
(* One instance serving every kind of call: the incremental communication    *)
(* entry point, the aptitude entry point, rotate_api_key and                  *)
(* reset_template_tracking, one after the other                               *)

\* reset_template_tracking (lines 70-75), called between generation calls
ResetTemplateTracking ==
    /\ pc = "idle"
    /\ used_reading_templates' = {}
    /\ used_listening_templates' = {}
    /\ used_grammar_templates' = {}
    /\ last_op' = "reset"
    /\ UNCHANGED <<api_keys, current_key_index, pc, topic_configs, existing_counts,
                   missing_configs, key_attempt, retry, current_api_key, batch_i,
                   all_questions, result, log, inflight, rotVars, path, entry,
                   args, trace, skill>>
    /\ UNCHANGED storeVars
    /\ UNCHANGED threadVars
    /\ UNCHANGED backendVars

\* GroqQuestionGenerator(): no credential configured, or two
InitInstance ==
    /\ api_keys \in {<<>>, SubSeq(KeyNames, 1, 2)}
    /\ current_key_index = 0
    /\ pc = "idle"
    /\ topic_configs = <<>>
    /\ existing_counts = <<>>
    /\ missing_configs = <<>>
    /\ IdleLocals
    /\ NoThreads
    /\ NoApplication

\* the aptitude calls explored on the instance: those made right after a
\* reading batch took the first three templates
explored_aptitude_call ==
    /\ used_reading_templates = 0..2
    /\ used_listening_templates = {}
    /\ used_grammar_templates = {}
    /\ last_op = "generate"

AptitudeStart == explored_aptitude_call /\ StartCall

AptitudeReturn == entry = "none" /\ Return

NextInstance ==
    \/ StartIncremental
    \/ SmallSkip
    \/ SmallTemplates
    \/ SmallPost
    \/ SmallAnswer
    \/ ReturnIncremental
    \/ Rotate
    \/ ResetTemplateTracking
    \/ AptitudeStart
    \/ SinglePost
    \/ SingleResponse
    \/ BatchPost
    \/ BatchResponse
    \/ AptitudeReturn

SpecInstance == InitInstance /\ [][NextInstance]_vars

----------------------------------------------------------------------------
(* Claims about the instance as a whole *)

\* the step is the template stage of the small-batch generator of skill sk
TemplateStageOf(sk) == TemplateStageStep /\ skill = sk

UsageSetsValid ==
    /\ used_reading_templates \subseteq PoolIndices("reading")
    /\ used_listening_templates \subseteq PoolIndices("listening")
    /\ used_grammar_templates \subseteq PoolIndices("grammar")

UsageSetsFrame ==
    /\ used_reading_templates' # used_reading_templates =>
          TemplateStageOf("reading") \/ last_op' = "reset"
    /\ used_listening_templates' # used_listening_templates =>
          TemplateStageOf("listening") \/ last_op' = "reset"
    /\ used_grammar_templates' # used_grammar_templates =>
          TemplateStageOf("grammar") \/ last_op' = "reset"

\* C31: the three usage sets are empty on a new instance, hold only indices
\* of the template pool of their own category in every reachable state, and a
\* step changes one of them only if it is the template stage of the small-batch
\* generator of that category or reset_template_tracking; a batch served by
\* the provider, every step of an aptitude call and every rotate_api_key call
\* leave the three sets as they are
C31_UsageSetsFrame ==
    /\ (used_reading_templates = {} /\ used_listening_templates = {}
        /\ used_grammar_templates = {})
    /\ []UsageSetsValid
    /\ [][UsageSetsFrame]_vars

\* an aptitude call that rotated the credential ends on an instance whose
\* reading set holds the three templates an earlier batch took
C31_Witness ==
    /\ pc = "done"
    /\ path = "single"
    /\ rotate_ret
    /\ current_key_index = 0
    /\ used_reading_templates = 0..2
    /\ result.generated_by = "fallback_templates"

----------------------------------------------------------------------------
(* Two workflows on one instance: rotate_api_key and the template stage of   *)
(* _generate_small_reading_batch, a step being one read or one write of a    *)
(* field of the instance                                                      *)

Threads == {1, 2}

ThreadOps == {"rotate_api_key", "reading_fallback"}

\* the locals of a workflow: `called` are the operations it has called,
\* `emitted`, `rotations` and `cleared` the template indices it has emitted,
\* the rotate_api_key calls of it that returned True, and whether it has
\* cleared the usage set
IdleThread ==
    [at |-> "idle", called |-> {}, index_read |-> 0, template_index |-> 0,
     limit |-> 0, generated_count |-> 0, existing_passages |-> {},
     emitted |-> <<>>, rotations |-> 0, cleared |-> FALSE]

InitInterleaved ==
    /\ api_keys \in {SubSeq(KeyNames, 1, n) : n \in 1..MaxKeys}
    /\ current_key_index = 0
    /\ pc = "idle"
    /\ topic_configs = <<>>
    /\ existing_counts = <<>>
    /\ missing_configs = <<>>
    /\ IdleLocals
    /\ threads = [t \in Threads |-> IdleThread]
    /\ serialized \in BOOLEAN
    /\ NoApplication

threadFrame ==
    <<api_keys, pc, topic_configs, existing_counts, missing_configs, key_attempt,
      retry, current_api_key, batch_i, all_questions, result, log, inflight,
      rot_start, rot_calls, rotate_ret, last_op, path, entry, args,
      used_listening_templates, used_grammar_templates, trace, skill,
      existing_questions_content, previous, serialized, application>>

\* a workflow enters rotate_api_key or the template stage of a reading batch
\* of three passages with no persisted question, each once and in either
\* order; when the workflows are serialized it waits until the other one has
\* left the instance
ThreadStart(t) ==
    /\ threads[t].at = "idle"
    /\ serialized => \A u \in Threads : threads[u].at = "idle"
    /\ \E op \in ThreadOps \ threads[t].called :
        threads' = [threads EXCEPT
            ![t].at = IF op = "rotate_api_key" THEN "rotate" ELSE "loop",
            ![t].called = @ \cup {op},
            ![t].template_index = 0,
            ![t].limit = small_pool_size("reading"),
            ![t].generated_count = 0,
            ![t].existing_passages = {}]
    /\ UNCHANGED <<current_key_index, used_reading_templates>>
    /\ UNCHANGED threadFrame

\* "if len(self.api_keys) <= 1: return False", else the read of
\* self.current_key_index in the right-hand side of line 92
RotateRead(t) ==
    /\ threads[t].at = "rotate"
    /\ threads' = IF rotate_possible(api_keys)
                  THEN [threads EXCEPT ![t].at = "rotate_write",
                                       ![t].index_read = current_key_index]
                  ELSE [threads EXCEPT ![t].at = "idle"]
    /\ UNCHANGED <<current_key_index, used_reading_templates>>
    /\ UNCHANGED threadFrame

\* the store to self.current_key_index of line 92, and "return True"
RotateWrite(t) ==
    /\ threads[t].at = "rotate_write"
    /\ current_key_index' = rotate_next_index(api_keys, threads[t].index_read)
    /\ threads' = [threads EXCEPT ![t].at = "idle", ![t].rotations = @ + 1]
    /\ UNCHANGED used_reading_templates
    /\ UNCHANGED threadFrame

\* the loop test and the "if passage_key not in existing_passages and
\* template_index not in self.used_reading_templates" of one iteration
\* (lines 1447-1452, 1478-1483); after the first loop, the test of line 1473
\* and the clear of line 1475; after the last loop, the variations, which use
\* locals only (lines 1502-1525)
LoopTest(t) ==
    /\ threads[t].at = "loop"
    /\ LET th == threads[t]
           actual == th.template_index % small_pool_size("reading")
           key == text_key("reading", small_template("reading", actual))
           first_pass == th.limit = small_pool_size("reading")
           short == th.generated_count < small_reading_max
       IN  IF short /\ th.template_index < th.limit
           THEN /\ threads' =
                      IF template_free(actual, key, used_reading_templates,
                                       th.existing_passages)
                      THEN [threads EXCEPT ![t].at = "emit"]
                      ELSE [threads EXCEPT ![t].template_index = @ + 1]
                /\ UNCHANGED used_reading_templates
           ELSE IF first_pass /\ short
                   /\ Cardinality(used_reading_templates)
                        >= small_pool_size("reading")
           THEN /\ used_reading_templates' = {}
                /\ threads' = [threads EXCEPT
                                  ![t].limit = 2 * small_pool_size("reading"),
                                  ![t].cleared = TRUE]
           ELSE /\ threads' = [threads EXCEPT ![t].at = "idle"]
                /\ UNCHANGED used_reading_templates
    /\ UNCHANGED current_key_index
    /\ UNCHANGED threadFrame

\* the body of the if: the question is appended and the template is marked
\* as used (lines 1453-1468, 1484-1497)
LoopEmit(t) ==
    /\ threads[t].at = "emit"
    /\ LET th == threads[t]
           actual == th.template_index % small_pool_size("reading")
           key == text_key("reading", small_template("reading", actual))
       IN  /\ used_reading_templates' = used_reading_templates \cup {actual}
           /\ threads' = [threads EXCEPT
                             ![t].at = "loop",
                             ![t].existing_passages = @ \cup {key},
                             ![t].emitted = Append(@, actual),
                             ![t].generated_count = @ + 1,
                             ![t].template_index = @ + 1]
    /\ UNCHANGED current_key_index
    /\ UNCHANGED threadFrame

NextInterleaved ==
    \E t \in Threads :
        \/ ThreadStart(t)
        \/ RotateRead(t)
        \/ RotateWrite(t)
        \/ LoopTest(t)
        \/ LoopEmit(t)

SpecInterleaved == InitInterleaved /\ [][NextInterleaved]_vars

----------------------------------------------------------------------------
(* Claims about workflows sharing an instance *)

\* the template indices both workflows have emitted
BothEmitted == Range(threads[1].emitted) \cap Range(threads[2].emitted)

NeverCleared == \A t \in Threads : ~threads[t].cleared

\* the rotate_api_key calls that have returned True
RotationsReturned == threads[1].rotations + threads[2].rotations

NoRotationInProgress == \A t \in Threads : threads[t].at # "rotate_write"

\* C32: when two workflows use one instance one after the other, no template
\* is emitted by both unless the usage set was cleared in between, and the
\* credential index has advanced by one position for every rotate_api_key
\* call that returned True; when their steps interleave, both outcomes fail:
\* both workflows emit the same template with no clear, and two rotations
\* advance the index by one position only
C32_SerializedCallsDoNotRace ==
    serialized =>
        /\ NeverCleared => BothEmitted = {}
        /\ NoRotationInProgress =>
              current_key_index = RotationsReturned % Len(api_keys)

\* interleaved workflows: both have rotated and emitted, template 0 went out
\* twice and the index of three credentials stands at 1 after two rotations
C32_Witness ==
    /\ ~serialized
    /\ Len(api_keys) = 3
    /\ \A t \in Threads : threads[t].at = "idle" /\ threads[t].called = ThreadOps
    /\ NeverCleared
    /\ 0 \in BothEmitted
    /\ RotationsReturned = 2
    /\ current_key_index = 1

----------------------------------------------------------------------------
(* Claims about the rotation cycle of a rate-limited call *)

\* the position of a credential in self.api_keys
KeyIndex(key) == (CHOOSE i \in 1..Len(api_keys) : api_keys[i] = key) - 1

\* every request of the call is followed by its answer, and a wait comes only
\* after an answer
RequestsAnswered ==
    \A k \in 1..Len(log) :
        /\ log[k].ev = "post" => k < Len(log) /\ log[k + 1].ev = "response"
        /\ log[k].ev = "response" => k > 1 /\ log[k - 1].ev = "post"
        /\ log[k].ev = "sleep" => k > 1 /\ log[k - 1].ev = "response"

\* C33: a single-call aptitude request whose N >= 1 credentials all stay
\* rate-limited makes exactly two requests with every credential, taking the
\* credentials once each in circular order from the one that was current when
\* the call began (2 * N requests, each answered before the next is sent),
\* then returns the template fallback, and leaves the credential index at the
\* value it had when the call began
C33_RateLimitedRotationCycle ==
    (pc = "done" /\ path = "single" /\ AlwaysRateLimited) =>
        LET N == Len(api_keys)
            start == KeyIndex(Posts[1].key)
        IN  /\ Len(Posts) = 2 * N
            /\ \A k \in 1..N :
                  /\ Posts[2 * k - 1].key = api_keys[((start + k - 1) % N) + 1]
                  /\ Posts[2 * k].key = api_keys[((start + k - 1) % N) + 1]
            /\ RequestsAnswered
            /\ result.generated_by = "fallback_templates"
            /\ current_key_index = start

\* three credentials, a call begun at index 1: six requests, all answered
\* 429, and the index is 1 again
C33_Witness ==
    /\ pc = "done"
    /\ path = "single"
    /\ AlwaysRateLimited
    /\ Len(api_keys) = 3
    /\ Len(Posts) = 6
    /\ Posts[1].key = api_keys[2]
    /\ current_key_index = 1

----------------------------------------------------------------------------
(* Claims about rate limiting in the batched path *)

RateLimited(r) == r.status = 429

\* the step of the batched path that handles an answer satisfying P
BatchAnswerStep(P(_)) ==
    /\ pc = "batch_wait"
    /\ Len(EventsOf(log', "response")) = Len(Answers) + 1
    /\ P(EventsOf(log', "response")[Len(Answers) + 1])

\* the sub-batch adds nothing, the index moves on by one credential, and the
\* call goes on with the sub-batch after this one or ends
SkippedAndRotated ==
    /\ all_questions' = all_questions
    /\ current_key_index' =
          IF Len(api_keys) > 1
          THEN (current_key_index + 1) % Len(api_keys)
          ELSE current_key_index
    /\ \/ pc' = "batch_post" /\ batch_i' = batch_i + 2
       \/ pc' = "done" /\ batch_i + 2 >= Len(missing_configs)

\* no sub-batch is requested twice, the request after a 429 carries the
\* credential that follows the rate-limited one, and a call whose sub-batches
\* all failed returns the hard error
BatchedRateLimitLog ==
    path = "batched" =>
        LET N == Len(api_keys)
        IN  /\ \A k \in 1..Len(Posts) :
                  Posts[k].topics =
                      SubSeq(MissingTopics, 2 * k - 1,
                             IF 2 * k > Len(MissingTopics)
                             THEN Len(MissingTopics) ELSE 2 * k)
            /\ \A k \in 1..(Len(Posts) - 1) :
                  Answers[k].status = 429 =>
                      Posts[k + 1].key =
                          api_keys[((KeyIndex(Posts[k].key) + 1) % N) + 1]
            /\ (pc = "done"
                /\ \A k \in 1..Len(Answers) :
                      ~(Answers[k].status = 200 /\ Answers[k].kind = "questions")) =>
                  /\ ~result.success
                  /\ Len(result.questions) = 1
                  /\ result.questions[1].src = "error"
                  /\ result.generated_by = "error"
                  /\ result.type = "all_batches_failed"

\* C34: in the batched path a sub-batch answered 429 is not requested again:
\* the credential index advances by exactly one position when there is more
\* than one credential, the sub-batch contributes no question, the next
\* sub-batch is sent with the new current credential, and a call whose
\* sub-batches all fail returns success = false with one error entry, not
\* template questions
C34_RateLimitedBatchNotRetried ==
    /\ []BatchedRateLimitLog
    /\ [][BatchAnswerStep(RateLimited) => SkippedAndRotated]_vars

\* three credentials, two sub-batches, both answered 429: the index has moved
\* from 0 to 2 and the call has returned the error entry
C34_Witness ==
    /\ pc = "done"
    /\ path = "batched"
    /\ Len(api_keys) = 3
    /\ Len(Answers) = 2
    /\ \A k \in 1..2 : Answers[k].status = 429
    /\ Posts[1].key = api_keys[1]
    /\ Posts[2].key = api_keys[2]
    /\ current_key_index = 2
    /\ ~result.success

----------------------------------------------------------------------------
(* Claims about generate_communication_questions_incremental *)

IncrementalDone ==
    pc = "done" /\ entry = "generate_communication_questions_incremental"

existing_count == Len(args.existing)

SkillRank(sk) == CHOOSE k \in 1..Len(Skills) : Skills[k] = sk

\* at most 3 reading, 3 listening and 5 grammar questions, of selected skills
\* only, the reading ones first and the grammar ones last
SkillsBoundedAndOrdered(questions) ==
    /\ Cardinality(OfSkill(questions, "reading")) <= 3
    /\ Cardinality(OfSkill(questions, "listening")) <= 3
    /\ Cardinality(OfSkill(questions, "grammar")) <= 5
    /\ \A k \in 1..Len(questions) : questions[k].skill \in args.skills
    /\ \A j, k \in 1..Len(questions) :
          j < k => SkillRank(questions[j].skill) <= SkillRank(questions[k].skill)

\* C35 as stated: a call never returns more new questions than
\* min(10, target_total - existing_count)
C35_NeverMoreThanBatch ==
    IncrementalDone =>
        /\ Len(result.questions) <= Min(10, target_total(args) - existing_count)
        /\ existing_count <= target_total(args) =>
              existing_count + Len(result.questions) <= target_total(args)
        /\ SkillsBoundedAndOrdered(result.questions)
        /\ existing_count >= target_total(args) => result.questions = <<>>

\* C35 amended: a call never returns more new questions than
\* max(0, min(10, target_total - existing_count)), so existing_count plus the
\* new questions never exceeds the target when existing_count <= target_total;
\* one call produces at most 3 reading, then at most 3 listening, then at most
\* 5 grammar questions, in that order and for the selected skills only, and
\* nothing when existing_count >= target_total
C35_NeverMoreThanBatchFloored ==
    IncrementalDone =>
        /\ Len(result.questions) <=
              Max(0, Min(10, target_total(args) - existing_count))
        /\ existing_count <= target_total(args) =>
              existing_count + Len(result.questions) <= target_total(args)
        /\ SkillsBoundedAndOrdered(result.questions)
        /\ existing_count >= target_total(args) => result.questions = <<>>

\* all three skills on a target of 14: a full batch of 3 reading, 3 listening
\* and 4 grammar questions
C35_Witness ==
    /\ IncrementalDone
    /\ args.skills = {"reading", "listening", "grammar"}
    /\ existing_count = 0
    /\ target_total(args) = 14
    /\ Len(result.questions) = 10
    /\ Cardinality(OfSkill(result.questions, "reading")) = 3
    /\ Cardinality(OfSkill(result.questions, "listening")) = 3
    /\ Cardinality(OfSkill(result.questions, "grammar")) = 4

\* the counts a configuration names, a missing level counting as 0
ConfiguredCount(config) ==
    dict_get(config, "easy", 0) + dict_get(config, "medium", 0)
    + dict_get(config, "hard", 0)

RECURSIVE ConfiguredGrammar(_, _)
ConfiguredGrammar(topic_questions, topics) ==
    IF topics = {} THEN 0
    ELSE LET t == CHOOSE x \in topics : TRUE
         IN  ConfiguredCount(topic_questions[t])
             + ConfiguredGrammar(topic_questions, topics \ {t})

\* the sum of the configured counts of the selected skills
ConfiguredTarget ==
    (IF "reading" \in args.skills THEN ConfiguredCount(args.reading_config) ELSE 0)
    + (IF "listening" \in args.skills
       THEN ConfiguredCount(args.listening_config.sentences) ELSE 0)
    + (IF "grammar" \in args.skills
       THEN ConfiguredGrammar(args.grammar_config.topicQuestions,
                              DOMAIN args.grammar_config.topicQuestions)
       ELSE 0)

\* C36: in every successful result of
\* generate_communication_questions_incremental, progress.current is
\* existing_count plus the number of questions returned, progress.target the
\* sum of the configured counts of the selected skills, progress.remaining
\* max(0, target - current), and progress.is_complete is true exactly when
\* current >= target
C36_ProgressConsistent ==
    (IncrementalDone /\ result.success) =>
        LET p == result.progress
        IN  /\ p.current = existing_count + Len(result.questions)
            /\ p.target = ConfiguredTarget
            /\ p.remaining = (IF p.target - p.current > 0
                              THEN p.target - p.current ELSE 0)
            /\ p.is_complete <=> p.current >= p.target

\* one persisted reading passage and three new ones reach the target of four
C36_Witness ==
    /\ IncrementalDone
    /\ result.success
    /\ args.skills = {"reading"}
    /\ existing_count = 1
    /\ Len(result.questions) = 3
    /\ result.progress.current = 4
    /\ result.progress.target = 4
    /\ result.progress.remaining = 0
    /\ result.progress.is_complete

----------------------------------------------------------------------------
(* The caller's loop over generate_communication_questions_incremental: the  *)
(* same request is repeated with an application id, every returned question  *)
(* is persisted before the next call, and the provider is absent or fails    *)

\* the requests of an application
ApplicationRequests ==
    [skills : IncrementalSkills,
     reading_config : {[easy |-> 4], [easy |-> 1]},
     listening_config : {[sentences |-> [easy |-> 4]]},
     grammar_config : {[topics |-> <<"tenses">>,
                        topicQuestions |-> ("tenses" :> [easy |-> 6])]}]

InitPersisting ==
    /\ api_keys \in {<<>>, SubSeq(KeyNames, 1, 1)}
    /\ current_key_index = 0
    /\ pc = "idle"
    /\ topic_configs = <<>>
    /\ existing_counts = <<>>
    /\ missing_configs = <<>>
    /\ IdleLocals
    /\ NoThreads
    /\ application \in [request : ApplicationRequests, questions : {<<>>}]

\* the arguments of a call for the application: the GET of lines 180-186 and
\* 202-206 returns the questions the backend holds
application_call == application.request @@ [existing |-> application.questions]

\* the caller asks for more while the target is not reached
StartPersisting ==
    /\ pc = "idle"
    /\ Len(application.questions) < target_total(application_call)
    /\ args' = application_call
    /\ entry' = "generate_communication_questions_incremental"
    /\ pc' = "incremental_skill"
    /\ path' = "incremental"
    /\ skill' = "reading"
    /\ all_questions' = <<>>
    /\ result' = NoResult
    /\ log' = <<>>
    /\ trace' = <<>>
    /\ last_op' = "generate"
    /\ UNCHANGED <<api_keys, current_key_index, topic_configs, existing_counts,
                   missing_configs, key_attempt, retry, current_api_key, batch_i,
                   inflight, rotVars, used_reading_templates,
                   used_listening_templates, used_grammar_templates>>
    /\ UNCHANGED storeVars
    /\ UNCHANGED threadVars
    /\ UNCHANGED backendVars

\* the provider fails: any answer but a parsed status 200 payload
SmallFailure ==
    /\ SmallAnswer
    /\ LET answers == EventsOf(log', "response")
       IN  ~(answers[Len(answers)].status = 200
             /\ answers[Len(answers)].kind = "questions")

\* the caller takes the result and persists its questions
ReturnPersisting ==
    /\ pc = "done"
    /\ entry = "generate_communication_questions_incremental"
    /\ application' = [application EXCEPT !.questions = @ \o result.questions]
    /\ pc' = "idle"
    /\ entry' = "none"
    /\ args' = <<>>
    /\ skill' = "none"
    /\ all_questions' = <<>>
    /\ current_api_key' = "None"
    /\ result' = NoResult
    /\ log' = <<>>
    /\ trace' = <<>>
    /\ path' = "none"
    /\ UNCHANGED <<api_keys, current_key_index, topic_configs, existing_counts,
                   missing_configs, key_attempt, retry, batch_i, inflight,
                   rotVars, last_op, used_reading_templates,
                   used_listening_templates, used_grammar_templates>>
    /\ UNCHANGED storeVars
    /\ UNCHANGED threadVars

NextPersisting ==
    \/ StartPersisting
    \/ SmallSkip
    \/ SmallTemplates
    \/ SmallPost
    \/ SmallFailure
    \/ ReturnPersisting

\* a step of NextPersisting is possible: a call is running, or the caller is
\* about to make one
Running ==
    ~(pc = "idle" /\ Len(application.questions) >= target_total(application_call))

\* the caller and the entry point keep running, a call that can take a step
\* takes one: WF_vars(NextPersisting), with Running for ENABLED
\* <<NextPersisting>>_vars
KeepsRunning == []<>(~Running) \/ []<><<NextPersisting>>_vars

SpecPersisting == InitPersisting /\ [][NextPersisting]_vars /\ KeepsRunning

----------------------------------------------------------------------------
(* Claims about the caller's loop *)

\* C37: with at least one selected skill and a positive target, a provider
\* that is absent or fails every request, and a caller that persists every
\* returned question before it calls again, every call made while the target
\* is not reached returns at least one new question, and after finitely many
\* calls a call reports is_complete = true
C37_IncrementalCompletes ==
    /\ [](IncrementalDone => Len(result.questions) >= 1)
    /\ <>(IncrementalDone /\ result.progress.is_complete)

\* the second call for reading, listening and grammar, made with the ten
\* questions of the first call persisted, returns the last four
C37_Witness ==
    /\ IncrementalDone
    /\ args.skills = {"reading", "listening", "grammar"}
    /\ Len(application.questions) = 10
    /\ existing_count = 10
    /\ Len(result.questions) = 4
    /\ result.generated_by = "groq_incremental"
    /\ result.progress.is_complete
    /\ \A k \in 1..Len(result.questions) : result.questions[k].src # "ai"

----------------------------------------------------------------------------
(* Claims about the counts the aptitude template fallback serves *)

FallbackServed == pc = "done" /\ result.generated_by = "fallback_templates"

\* the questions of the result tagged with a topic and a difficulty
ServedCount(topic, difficulty) ==
    Cardinality(Tagged(result.questions, topic, difficulty))

\* requested minus persisted, floored at zero
MissingOf(topic, difficulty) ==
    LET requested == Requested(topic_configs, topic, difficulty)
        existing == IF topic \in DOMAIN existing_counts
                    THEN CountOf(existing_counts[topic], difficulty) ELSE 0
    IN  IF requested - existing > 0 THEN requested - existing ELSE 0

\* C38: what the aptitude template fallback serves depends on how it is
\* reached: with no credential the store is not queried and every
\* topic/difficulty gets the originally requested count; reached in the
\* single-call path after rate limiting or a status other than 200, every
\* topic/difficulty gets exactly its missing count (requested minus existing,
\* floored at zero), so a topic that misses nothing is absent from the result
C38_FallbackCountsByPath ==
    FallbackServed =>
        /\ path \in {"no_credentials", "single"}
        /\ path = "no_credentials" =>
              /\ api_keys = <<>>
              /\ existing_counts = <<>>
              /\ Posts = <<>>
              /\ \A t \in Range(CallTopics) : \A d \in Range(Difficulties) :
                    ServedCount(t, d) = Requested(topic_configs, t, d)
              /\ Len(result.questions) = total_of(topic_configs)
        /\ path = "single" =>
              /\ LastAnswer.status # 200
              /\ \A t \in Range(CallTopics) : \A d \in Range(Difficulties) :
                    ServedCount(t, d) = MissingOf(t, d)
              /\ \A k \in 1..Len(result.questions) :
                    \E d \in Range(Difficulties) :
                        MissingOf(result.questions[k].topic, d) > 0

\* a call answered 500 whose store already covers one of its topics: the
\* fallback serves fewer questions than were requested and leaves the covered
\* topic out
C38_Witness ==
    /\ FallbackServed
    /\ path = "single"
    /\ LastAnswer.status = 500
    /\ Len(topic_configs) = 2
    /\ Len(missing_configs) = 1
    /\ Len(result.questions) < total_of(topic_configs)
    /\ \A k \in 1..Len(result.questions) :
          result.questions[k].topic = topic_configs[2].topic

----------------------------------------------------------------------------
(* Claims about the variations of the aptitude template fallback *)

\* C39: when the aptitude template fallback is asked for more items of a
\* topic/difficulty than its pool holds, the surplus items are variations
\* whose text carries a "[Variation n]" marker, so that no two items emitted
\* for that topic/difficulty in one call have the same question text
C39_SurplusAreVariations ==
    pc = "returned" =>
        \A t \in FallbackTopics : \A d \in Range(Difficulties) :
            VariationRequired(topic_configs, t, d) =>
                /\ \E k \in Tagged(result.questions, t, d) :
                      result.questions[k].variation > 0
                /\ DistinctTexts(result.questions, t, d)

----------------------------------------------------------------------------
(* generate_aptitude_questions_by_topic with a provider that answers: every  *)
(* request returns a status or times out, and the call goes on               *)

\* the call is between its first request and its return
InCall == pc \in {"single_post", "single_wait", "batch_post", "batch_wait"}

CallStep == SinglePost \/ SingleResponse \/ BatchPost \/ BatchResponse

\* a running call takes its next step: WF_vars(CallStep), with InCall for
\* ENABLED <<CallStep>>_vars
CallProceeds == []<>(~InCall) \/ []<><<CallStep>>_vars

SpecAnswered == Init /\ [][Next]_vars /\ CallProceeds

----------------------------------------------------------------------------
(* Claims about termination *)

\* the requests of the call stay within the budget of its path
RequestBudget ==
    /\ path = "single" => Len(Posts) <= 2 * Len(api_keys)
    /\ path = "batched" => Len(Posts) <= (Len(missing_configs) + 1) \div 2
    /\ (pc = "done" /\ path = "batched") =>
          Len(Posts) = (Len(missing_configs) + 1) \div 2

\* the call has returned a result, and a template result holds every item
\* that was asked of the fallback, whatever the size of the pool
ReturnedResult ==
    pc = "done" =>
        /\ result # NoResult
        /\ result.total_questions = Len(result.questions)
        /\ result.generated_by = "fallback_templates" =>
              Len(result.questions) =
                  total_of(IF path = "no_credentials" THEN topic_configs
                           ELSE missing_configs)

\* C40: every call of generate_aptitude_questions_by_topic ends with a
\* result, provided every provider request returns a status or times out: the
\* single-call path sends at most 2 * N requests for N credentials, the
\* batched path exactly ceil(T / 2) requests for T missing topics, and the
\* pool extension of the template fallback ends for every requested count,
\* for known and unknown topics and for every difficulty
C40_CallTerminates ==
    /\ []RequestBudget
    /\ []ReturnedResult
    /\ InCall ~> (pc = "done")

\* three credentials rate-limited throughout: six requests, then a template
\* result that serves the 10 missing hard questions of one topic
C40_Witness ==
    /\ pc = "done"
    /\ path = "single"
    /\ Len(api_keys) = 3
    /\ Len(Posts) = 6
    /\ result.generated_by = "fallback_templates"
    /\ Cardinality(Tagged(result.questions, "logical_reasoning", "hard")) = 10

====
